---- MODULE Spec2Model ----
(***************************************************************************)
(* Model of the MolViewSpec tree interpreter of mol-view-spec's frontend:  *)
(*   - loadTree (helpers/utils.ts, second part): the DFS walk that applies *)
(*     loading actions into one state-builder batch and commits it once;   *)
(*   - collectAnnotationReferences with canonicalJsonString / stringHash;  *)
(*   - makeNearestReprMap, colorThemeForNode,                              *)
(*     transformFromRotationTranslation and ElementSet (selector.ts).      *)
(* Trees are arenas: node ids 1..n, node 1 is the root, parent[i] < i and  *)
(* the children of a node are ordered by id (their array order).           *)
(***************************************************************************)
EXTENDS Integers, Sequences, FiniteSets, TLC

VARIABLES
    tree,            \* loadTree argument `tree`
    loadingActions,  \* loadTree argument `loadingActions`: the kinds that have an action
    deletePrevious,  \* loadTree argument `deletePrevious`
    hostState,       \* the plugin's committed state tree: set of cells [ref, parent]
    hostBefore,      \* history: the plugin's state tree when the run was started
    update,          \* the StateBuilder batch of the run: sequence of recorded edits
    walk,            \* the callbacks the dfs of the run makes, in order
    mapping,         \* loadTree's `mapping`: node -> StateObjectSelector | undefined
    pos,             \* position of the walk in the sequence of dfs visits
    pc,              \* position of the run: "start", "walk", "commit", "done", "failed"
    calls,           \* history: loading-action invocations and commits, in order
    warnings,        \* history: nodes for which console.warn was called, in order
    annTree,         \* collectAnnotationReferences argument `tree`
    annotationMap,   \* context.annotationMap: node -> annotation id
    annSpecs,        \* the list returned by collectAnnotationReferences
    annPc,           \* "input" before the call, "collected" after it
    reprTree,        \* makeNearestReprMap argument `root`
    nearestReprMap,  \* makeNearestReprMap's `map`: node -> representation node
    reprPc,          \* "input", "up" after the first dfs, "down" after the second
    colorTree,       \* the tree that holds the argument `node` of colorThemeForNode
    colorNode,       \* colorThemeForNode argument `node` (0: undefined)
    colorContext,    \* colorThemeForNode argument `context`: its annotationMap
    colorTheme,      \* what colorThemeForNode returned
    colorPc,         \* "input" before the call, "returned" after it
    rotation,        \* transformFromRotationTranslation argument `rotation`
    translation,     \* transformFromRotationTranslation argument `translation`
    transformResult, \* what transformFromRotationTranslation returned or threw
    transformPc,     \* "input" before the call, "returned" or "thrown" after it
    structure,       \* ElementSet.fromSelector argument `structure`
    selector,        \* ElementSet.fromSelector argument `selector`
    elementSet,      \* what ElementSet.fromSelector returned
    elementPc,       \* "input" before the call, "built" after it, "asked" after has
    location,        \* ElementSet.has argument `location`
    hasResult,       \* what ElementSet.has returned
    run,             \* number of the interpretation of the tree: 1 or 2
    firstRun,        \* history: what the first interpretation produced
    plugin,          \* AppModel.plugin: "undefined" until initPlugin has completed
    status,          \* AppModel.status: 'ready', 'loading' or 'error'
    url,             \* AppModel.url: the value of the subject
    treeSubject,     \* AppModel.tree: the value of the subject
    appCalls,        \* the calls of loadMvsFromUrl: where each one is, and its url
    committedLast,   \* history: the url of the run whose commit completed last
    phantomTree,     \* the tree that holds the argument `node` of isPhantomComponent
    phantomNode,     \* isPhantomComponent argument `node`
    phantomResult,   \* what isPhantomComponent returned
    phantomPc,       \* "input" before the call, "returned" after it
    jsonValues,      \* distinct argument `values`
    jsonKeys,        \* canonicalJsonString of each of the values
    distinctResult,  \* what distinct returned
    jsonPc           \* "input" before the calls, "returned" after them

reprVars == <<reprTree, nearestReprMap, reprPc>>

colorVars == <<colorTree, colorNode, colorContext, colorTheme, colorPc>>

transformVars == <<rotation, translation, transformResult, transformPc>>

elementVars == <<structure, selector, elementSet, elementPc, location, hasResult>>

twiceVars == <<run, firstRun>>

helperVars == <<reprVars, colorVars, transformVars, elementVars>>

appVars == <<plugin, status, url, treeSubject, appCalls, committedLast>>

phantomVars == <<phantomTree, phantomNode, phantomResult, phantomPc>>

jsonVars == <<jsonValues, jsonKeys, distinctResult, jsonPc>>

laterVars == <<appVars, phantomVars, jsonVars>>

vars == <<tree, loadingActions, deletePrevious, hostState, hostBefore, update, walk,
          mapping, pos, pc, calls, warnings, annTree, annotationMap, annSpecs, annPc,
          helperVars, twiceVars, laterVars>>

loadVars == <<tree, loadingActions, deletePrevious, hostState, hostBefore, update,
              walk, mapping, pos, pc, calls, warnings>>

annVars == <<annTree, annotationMap, annSpecs, annPc>>

----------------------------------------------------------------------------
(* Bounds *)

\* Largest number of nodes of a tree given to loadTree.
MaxNodes == 4

\* Largest number of nodes of a tree given to collectAnnotationReferences.
MaxAnnNodes == 3

\* Largest number of nodes of a tree given to collectAnnotationReferences when
\* the nodes are drawn from OrderChoices.
MaxOrderNodes == 4

----------------------------------------------------------------------------
(* Tree model and traversal *)

\* The ordered children of node i (its `children` array).
RECURSIVE ChildrenFrom(_, _, _)
ChildrenFrom(t, i, j) ==
    IF j > t.n THEN <<>>
    ELSE IF t.parent[j] = i THEN <<j>> \o ChildrenFrom(t, i, j + 1)
    ELSE ChildrenFrom(t, i, j + 1)

getChildren(t, i) == ChildrenFrom(t, i, 1)

\* dfs(root, visit, postVisit): the sequence of callback invocations, each with
\* the node and its parent (0 for the root, which has no parent).
RECURSIVE dfsNode(_, _, _)
RECURSIVE dfsChildren(_, _, _)
dfsNode(t, i, p) ==
    <<[phase |-> "visit", node |-> i, parent |-> p]>>
        \o dfsChildren(t, i, getChildren(t, i))
        \o <<[phase |-> "postVisit", node |-> i, parent |-> p]>>

dfsChildren(t, i, cs) ==
    IF cs = <<>> THEN <<>>
    ELSE dfsNode(t, Head(cs), i) \o dfsChildren(t, i, Tail(cs))

dfs(t) == dfsNode(t, 1, 0)

\* The invocations of the `visit` callback alone (pre-order).
dfsVisits(t) == SelectSeq(dfs(t), LAMBDA e : e.phase = "visit")

\* The invocations of the `postVisit` callback alone (post-order).
dfsPostVisits(t) == SelectSeq(dfs(t), LAMBDA e : e.phase = "postVisit")

\* Is a an ancestor of d (a # d)?
RECURSIVE IsAncestor(_, _, _)
IsAncestor(t, a, d) ==
    IF d = 0 \/ t.parent[d] = 0 THEN FALSE
    ELSE t.parent[d] = a \/ IsAncestor(t, a, t.parent[d])

\* Position of node i in a sequence of visits.
VisitIndex(vs, i) == CHOOSE k \in 1..Len(vs) : vs[k].node = i

\* All tree shapes with n nodes.
TreeShapes(n) ==
    {p \in [1..n -> 0..(n - 1)] : p[1] = 0 /\ \A i \in 2..n : p[i] >= 1 /\ p[i] < i}

----------------------------------------------------------------------------
(* loadTree *)

\* StateObjectSelectors (references to cells of the plugin state tree).
msRoot == [ref |-> "root", id |-> 0]
NodeRef(i) == [ref |-> "node", id |-> i]
OldRef(k) == [ref |-> "old", id |-> k]
Undefined == [ref |-> "undefined", id |-> 0]

\* structureProps(node): the props' type name, or "throw" for the default branch.
structureProps(node) ==
    CASE node.type = "model" -> "model"
      [] node.type = "assembly" -> "assembly"
      [] node.type = "symmetry" -> "symmetry"
      [] node.type = "symmetry_mates" -> "symmetry-mates"
      [] OTHER -> "throw"

\* What an invocation of a LoadingAction can do: return a new selector, return
\* undefined, or throw. The action of a 'structure' node builds its props with
\* structureProps and throws when that throws.
LoadingActionOutcomes(node) ==
    IF node.kind = "structure" /\ structureProps(node) = "throw" THEN {"throw"}
    ELSE {"selector", "undefined", "throw"}

\* mapping.get(node)
MappingGet(m, i) == IF i \in DOMAIN m THEN m[i] ELSE Undefined

\* mapping.set(node, value)
MappingSet(m, i, v) == [j \in (DOMAIN m) \cup {i} |-> IF j = i THEN v ELSE m[j]]

\* update.currentTree.children.get(msRoot.ref): the root's children, in order.
RECURSIVE SetToSeq(_)
SetToSeq(S) ==
    IF S = {} THEN <<>>
    ELSE LET k == CHOOSE x \in S : \A y \in S : x <= y
         IN <<k>> \o SetToSeq(S \ {k})

RootChildren(host) ==
    LET ids == {c.ref.id : c \in {d \in host : d.parent = msRoot}}
    IN [k \in 1..Cardinality(ids) |-> OldRef(SetToSeq(ids)[k])]

\* deletePrevious: the deletions recorded right after plugin.build().
DeletePreviousAlways(host, del) ==
    [k \in 1..Len(RootChildren(host)) |-> [op |-> "delete", ref |-> RootChildren(host)[k], parent |-> msRoot]]

DeletePreviousEdits(host, del) ==
    IF del
    THEN [k \in 1..Len(RootChildren(host)) |-> [op |-> "delete", ref |-> RootChildren(host)[k], parent |-> msRoot]]
    ELSE <<>>

\* Is cell c, in state tree `host`, the cell r or below it?
RECURSIVE InSubtree(_, _, _, _)
InSubtree(host, c, r, fuel) ==
    \/ c.ref = r
    \/ /\ fuel > 0
       /\ \E d \in host : d.ref = c.parent /\ InSubtree(host, d, r, fuel - 1)

\* One edit of the batch applied to the state tree.
ApplyEdit(host, e) ==
    IF e.op = "delete"
    THEN {c \in host : ~InSubtree(host, c, e.ref, Cardinality(host))}
    ELSE host \cup {[ref |-> e.ref, parent |-> e.parent]}

\* update.commit(): all edits of the batch, in the order they were recorded.
RECURSIVE CommitEdits(_, _)
CommitEdits(host, edits) ==
    IF edits = <<>> THEN host
    ELSE CommitEdits(ApplyEdit(host, Head(edits)), Tail(edits))

\* The trees, action tables and previous states a run is started with.
NodeChoices ==
    << [kind |-> "structure", type |-> "model"],
       [kind |-> "structure", type |-> "unsupported"],
       [kind |-> "component", type |-> "none"] >>

RootNode == [kind |-> "root", type |-> "none"]

\* The tree of shape p whose root is a root node and whose node i is the choice c[i].
TreeOf(n, p, c) ==
    [n |-> n, parent |-> p,
     node |-> [i \in 1..n |-> IF i = 1 THEN RootNode ELSE NodeChoices[c[i]]]]

\* The first branch of the example tree: root -> download -> parse ->
\* structure -> component -> representation -> color.
ExampleChain ==
    [ n |-> 7,
      parent |-> <<0, 1, 2, 3, 4, 5, 6>>,
      node |-> << RootNode,
                  [kind |-> "download", type |-> "none"],
                  [kind |-> "parse", type |-> "mmcif"],
                  [kind |-> "structure", type |-> "model"],
                  [kind |-> "component", type |-> "none"],
                  [kind |-> "representation", type |-> "cartoon"],
                  [kind |-> "color", type |-> "none"] >> ]

\* Tables of loading actions: the kinds that have an action registered.
AllActions == {"root", "download", "parse", "structure", "component", "representation"}

ActionTables ==
    { AllActions,
      AllActions \ {"component"},
      AllActions \ {"root"} }

PreviousStates ==
    { {},
      { [ref |-> OldRef(1), parent |-> msRoot],
        [ref |-> OldRef(2), parent |-> msRoot],
        [ref |-> OldRef(3), parent |-> OldRef(1)] } }

EmptyMap == [i \in {} |-> Undefined]

AnnIdle ==
    /\ annTree = [n |-> 0]
    /\ annotationMap = EmptyMap
    /\ annSpecs = <<>>
    /\ annPc = "idle"

\* The other helpers are not called.
ReprIdle ==
    /\ reprTree = [n |-> 0]
    /\ nearestReprMap = EmptyMap
    /\ reprPc = "idle"

ColorIdle ==
    /\ colorTree = [n |-> 0]
    /\ colorNode = 0
    /\ colorContext = EmptyMap
    /\ colorTheme = <<>>
    /\ colorPc = "idle"

TransformIdle ==
    /\ rotation = <<>>
    /\ translation = <<>>
    /\ transformResult = <<>>
    /\ transformPc = "idle"

ElementIdle ==
    /\ structure = <<>>
    /\ selector = <<>>
    /\ elementSet = <<>>
    /\ elementPc = "idle"
    /\ location = <<>>
    /\ hasResult = FALSE

HelpersIdle == ReprIdle /\ ColorIdle /\ TransformIdle /\ ElementIdle

\* One interpretation only.
AppIdle ==
    /\ plugin = "undefined"
    /\ status = "ready"
    /\ url = "undefined"
    /\ treeSubject = "undefined"
    /\ appCalls = <<>>
    /\ committedLast = "undefined"

PhantomIdle ==
    /\ phantomTree = [n |-> 0]
    /\ phantomNode = 0
    /\ phantomResult = <<>>
    /\ phantomPc = "idle"

JsonIdle ==
    /\ jsonValues = <<>>
    /\ jsonKeys = <<>>
    /\ distinctResult = <<>>
    /\ jsonPc = "idle"

LaterIdle == AppIdle /\ PhantomIdle /\ JsonIdle

TwiceIdle ==
    /\ run = 1
    /\ firstRun = <<>>

Init ==
    /\ \/ \E n \in 1..MaxNodes :
             \E p \in TreeShapes(n) :
                \E c \in [1..n -> 1..Len(NodeChoices)] :
                   c[1] = 1 /\ tree = TreeOf(n, p, c)
       \/ tree = ExampleChain
    /\ loadingActions \in ActionTables
    /\ deletePrevious \in BOOLEAN
    /\ hostState \in PreviousStates
    /\ hostBefore = hostState
    /\ update = <<>>
    /\ walk = <<>>
    /\ mapping = EmptyMap
    /\ pos = 1
    /\ pc = "start"
    /\ calls = <<>>
    /\ warnings = <<>>
    /\ AnnIdle
    /\ HelpersIdle
    /\ TwiceIdle
    /\ LaterIdle

\* dfs<TTree>(tree, (node, parent) => ...): the callback is the `visit` one.
LoadTreeWalkPostOrder(t) == dfsPostVisits(t)

LoadTreeWalk(t) == dfsVisits(t)

\* loadTree, lines 351-357: open the batch, record the deletions, enter dfs.
LoadTreeStart ==
    /\ pc = "start"
    /\ update' = DeletePreviousEdits(hostState, deletePrevious)
    /\ walk' = LoadTreeWalk(tree)
    /\ mapping' = EmptyMap
    /\ pos' = 1
    /\ pc' = "walk"
    /\ UNCHANGED <<tree, loadingActions, deletePrevious, hostState, hostBefore, calls, warnings>>
    /\ UNCHANGED annVars
    /\ UNCHANGED <<helperVars, twiceVars>>
    /\ UNCHANGED laterVars

\* const action = loadingActions[kind]; if (action) ...
HasAction(table, kind) == kind \in table

\* const msParent = parent ? mapping.get(parent) : msRoot
RECURSIVE NearestResult(_, _, _)
NearestResult(m, t, p) ==
    IF p = 0 THEN msRoot
    ELSE IF MappingGet(m, p) # Undefined THEN MappingGet(m, p)
    ELSE NearestResult(m, t, t.parent[p])

ParentResultNearest(m, t, p) == NearestResult(m, t, p)

ParentResult(m, t, p) == IF p # 0 THEN MappingGet(m, p) ELSE msRoot

\* Where the run goes after the visit at position p: on with the walk, or to
\* the commit once dfs has returned.
AfterVisitCommitEarly(w, p) == "commit"

AfterVisit(w, p) == IF p >= Len(w) THEN "commit" ELSE "walk"

\* An exception thrown by the action is not caught: it leaves the dfs and
\* loadTree rejects.
AfterThrowSwallowed(w, p) == [pc |-> AfterVisit(w, p), pos |-> p + 1]

AfterThrow(w, p) == [pc |-> "failed", pos |-> p]

\* The else branch of `if (msParent)`: console.warn and return, the walk goes on.
AfterOrphanThrows(w, p) == [pc |-> "failed", pos |-> p]

AfterOrphan(w, p) == [pc |-> AfterVisit(w, p), pos |-> p + 1]

CallEvent(i, msParent, outcome) ==
    [ev |-> "action", node |-> i, msParent |-> msParent, result |-> outcome]

CommitEvent == [ev |-> "commit", node |-> 0, msParent |-> msRoot, result |-> "none"]

\* loadTree, lines 357-370: the dfs callback on the next node of the walk.
LoadTreeVisit ==
    /\ pc = "walk"
    /\ pos <= Len(walk)
    /\ LET e == walk[pos]
           node == tree.node[e.node]
           msParent == ParentResult(mapping, tree, e.parent)
       IN IF HasAction(loadingActions, node.kind)
          THEN IF msParent # Undefined
               THEN \E outcome \in LoadingActionOutcomes(node) :
                      /\ calls' = Append(calls, CallEvent(e.node, msParent, outcome))
                      /\ warnings' = warnings
                      /\ CASE outcome = "selector" ->
                                /\ update' = Append(update, [op |-> "apply", ref |-> NodeRef(e.node), parent |-> msParent])
                                /\ mapping' = MappingSet(mapping, e.node, NodeRef(e.node))
                                /\ pos' = pos + 1
                                /\ pc' = AfterVisit(walk, pos)
                           [] outcome = "undefined" ->
                                /\ update' = update
                                /\ mapping' = MappingSet(mapping, e.node, Undefined)
                                /\ pos' = pos + 1
                                /\ pc' = AfterVisit(walk, pos)
                           [] outcome = "throw" ->
                                /\ update' = update
                                /\ mapping' = mapping
                                /\ pos' = AfterThrow(walk, pos).pos
                                /\ pc' = AfterThrow(walk, pos).pc
               ELSE /\ warnings' = Append(warnings, e.node)
                    /\ pos' = AfterOrphan(walk, pos).pos
                    /\ pc' = AfterOrphan(walk, pos).pc
                    /\ UNCHANGED <<update, mapping, calls>>
          ELSE /\ pos' = pos + 1
               /\ pc' = AfterVisit(walk, pos)
               /\ UNCHANGED <<update, mapping, calls, warnings>>
    /\ UNCHANGED <<tree, loadingActions, deletePrevious, hostState, hostBefore, walk>>
    /\ UNCHANGED annVars
    /\ UNCHANGED <<helperVars, twiceVars>>
    /\ UNCHANGED laterVars

\* loadTree, line 371: await update.commit().
LoadTreeCommit ==
    /\ pc = "commit"
    /\ hostState' = CommitEdits(hostState, update)
    /\ calls' = Append(calls, CommitEvent)
    /\ pc' = "done"
    /\ UNCHANGED <<tree, loadingActions, deletePrevious, hostBefore, update, walk, mapping, pos, warnings>>
    /\ UNCHANGED annVars
    /\ UNCHANGED <<helperVars, twiceVars>>
    /\ UNCHANGED laterVars

Next ==
    \/ LoadTreeStart
    \/ LoadTreeVisit
    \/ LoadTreeCommit

Spec == Init /\ [][Next]_vars

----------------------------------------------------------------------------
(* Properties of loadTree *)

ActionCalls == SelectSeq(calls, LAMBDA c : c.ev = "action")

CommitCount == Len(SelectSeq(calls, LAMBDA c : c.ev = "commit"))

Invoked(i) == \E k \in 1..Len(calls) : calls[k].ev = "action" /\ calls[k].node = i

\* The callback of the walk has run on node i (to its end, or to a throw).
Visited(i) ==
    /\ pc \in {"walk", "commit", "done", "failed"}
    /\ \E k \in 1..Len(walk) :
          /\ walk[k].node = i
          /\ k < pos \/ (k = pos /\ pc = "failed")

\* Document order, stated on the tree alone: a is an ancestor of b, or below
\* their lowest common ancestor a's branch comes first in the children array.
AncestorsOrSelf(t, x) == {y \in 1..t.n : y = x \/ IsAncestor(t, y, x)}

Lca(t, a, b) ==
    LET common == AncestorsOrSelf(t, a) \cap AncestorsOrSelf(t, b)
    IN CHOOSE y \in common : \A z \in common : z <= y

BranchBelow(t, top, x) == CHOOSE y \in AncestorsOrSelf(t, x) : t.parent[y] = top

DocBefore(t, a, b) ==
    /\ a # b
    /\ \/ IsAncestor(t, a, b)
       \/ /\ ~IsAncestor(t, b, a)
          /\ BranchBelow(t, Lca(t, a, b), a) < BranchBelow(t, Lca(t, a, b), b)

\* C1: a run that does not throw commits exactly once, the commit is the last
\* event of the run, after the callback has run on every node of the tree; no
\* commit lies between two loading actions, and the plugin's state tree is not
\* changed before that commit.
C1_SingleTerminalCommit ==
    /\ \A k \in 1..Len(calls) : calls[k].ev = "commit" => k = Len(calls)
    /\ pc = "done" =>
          /\ CommitCount = 1
          /\ calls[Len(calls)].ev = "commit"
          /\ \A i \in 1..tree.n : Visited(i)
          /\ pos > tree.n
    /\ pc # "done" => CommitCount = 0 /\ hostState = hostBefore

C1_Witness ==
    /\ pc = "done"
    /\ Len(ActionCalls) >= 3
    /\ calls[Len(calls)].ev = "commit"

\* C2: when a loading action throws, the run fails, the throwing invocation is
\* the last event of the run (no later action, no commit), and the plugin's
\* state tree is what it was before the run, the recorded deletions included.
C2_ThrowAbortsRun ==
    /\ \A k \in 1..Len(calls) :
          calls[k].result = "throw" =>
              /\ k = Len(calls)
              /\ pc = "failed"
    /\ pc = "failed" =>
          /\ calls # <<>> /\ calls[Len(calls)].result = "throw"
          /\ CommitCount = 0
          /\ hostState = hostBefore

C2_Witness ==
    /\ pc = "failed"
    /\ deletePrevious /\ hostBefore # {}
    /\ \E k \in 1..Len(update) : update[k].op = "delete"
    /\ \E k \in 1..Len(update) : update[k].op = "apply"
    /\ tree.node[calls[Len(calls)].node] = [kind |-> "structure", type |-> "unsupported"]

\* Node c has a registered action and its parent p has none.
ChildOfSkipped(c) ==
    /\ tree.parent[c] # 0
    /\ HasAction(loadingActions, tree.node[c].kind)
    /\ ~HasAction(loadingActions, tree.node[tree.parent[c]].kind)

\* The result of the parent of c's parent (msRoot when c's parent is the root).
GrandparentResult(c) == ParentResult(mapping, tree, tree.parent[tree.parent[c]])

\* C3 as stated: a node whose kind has no action gets no entry, and each child
\* of it that has an action is invoked with the result of the skipped node's
\* parent as parentResult.
C3_ChildrenInheritGrandparent ==
    \A c \in 1..tree.n :
        (Visited(c) /\ ChildOfSkipped(c) /\ GrandparentResult(c) # Undefined) =>
            /\ tree.parent[c] \notin DOMAIN mapping
            /\ \E k \in 1..Len(calls) :
                  /\ calls[k].ev = "action" /\ calls[k].node = c
                  /\ calls[k].msParent = GrandparentResult(c)

\* C3 amended: a node whose kind has no action gets no entry, and each child of
\* it that has an action is not invoked: it gets no entry either and a warning
\* is emitted for it, also when the skipped node's parent has a result.
C3_ChildrenOfSkippedAreSkipped ==
    \A c \in 1..tree.n :
        (Visited(c) /\ ChildOfSkipped(c)) =>
            /\ tree.parent[c] \notin DOMAIN mapping
            /\ ~Invoked(c)
            /\ c \notin DOMAIN mapping
            /\ \E k \in 1..Len(warnings) : warnings[k] = c

C3_Witness ==
    /\ pc = "done"
    /\ \E c \in 1..tree.n :
          /\ ChildOfSkipped(c)
          /\ tree.parent[tree.parent[c]] # 0
          /\ GrandparentResult(c) # Undefined
          /\ \E k \in 1..Len(warnings) : warnings[k] = c

\* Node c has a registered action and its parent has no result in the map.
Orphan(c) ==
    /\ tree.parent[c] # 0
    /\ HasAction(loadingActions, tree.node[c].kind)
    /\ MappingGet(mapping, tree.parent[c]) = Undefined

\* C4: a node with a registered action whose parent has no result is skipped
\* (not invoked, no entry, one warning), the run does not fail because of it,
\* and every node with a registered action whose parent has a result (or that
\* is the root) is invoked.
C4_OrphanSkippedOthersInvoked ==
    /\ \A c \in 1..tree.n :
          (Visited(c) /\ Orphan(c)) =>
              /\ ~Invoked(c)
              /\ c \notin DOMAIN mapping
              /\ Cardinality({k \in 1..Len(warnings) : warnings[k] = c}) = 1
    /\ \A c \in 1..tree.n :
          (Visited(c) /\ HasAction(loadingActions, tree.node[c].kind) /\ ~Orphan(c)) =>
              Invoked(c)
    /\ pc = "failed" => calls # <<>> /\ calls[Len(calls)].result = "throw"
    /\ (pc = "done" /\ \A k \in 1..Len(calls) : calls[k].result # "throw") =>
          \A i \in 1..tree.n : Visited(i)

C4_Witness ==
    /\ pc = "done"
    /\ \E c, d \in 1..tree.n :
          /\ Orphan(c)
          /\ tree.parent[c] \in DOMAIN mapping
          /\ \E k \in 1..Len(warnings) : warnings[k] = c
          /\ DocBefore(tree, c, d)
          /\ Invoked(d)

\* The kinds of the nodes of the action invocations, in order.
CalledKinds == [k \in 1..Len(ActionCalls) |-> tree.node[ActionCalls[k].node].kind]

\* C5: loading actions are invoked in depth-first document order, each node at
\* most once, never a node before its parent; on the example chain with every
\* action registered and returning a selector the actions run in the order
\* root, download, parse, structure, component, representation.
C5_DepthFirstOrder ==
    /\ \A j, k \in 1..Len(ActionCalls) :
          j < k => DocBefore(tree, ActionCalls[j].node, ActionCalls[k].node)
    /\ \A k \in 1..Len(ActionCalls) :
          tree.parent[ActionCalls[k].node] # 0 =>
              \E j \in 1..(k - 1) : ActionCalls[j].node = tree.parent[ActionCalls[k].node]
    /\ ( /\ tree = ExampleChain
         /\ loadingActions = AllActions
         /\ pc = "done"
         /\ \A k \in 1..Len(ActionCalls) : ActionCalls[k].result = "selector" ) =>
            CalledKinds = <<"root", "download", "parse", "structure", "component", "representation">>

C5_Witness ==
    /\ tree = ExampleChain
    /\ loadingActions = AllActions
    /\ pc = "done"
    /\ Len(ActionCalls) = 6
    /\ \A k \in 1..Len(ActionCalls) : ActionCalls[k].result = "selector"

\* C6: with deletePrevious the batch starts with one deletion for each child
\* of the state tree's root, recorded before any loading action is invoked,
\* and holds no other deletion; without it the batch holds no deletion and
\* every cell of the previous state tree is still there during and after the run.
C6_DeletePrevious ==
    LET deleted == {update[k].ref : k \in {j \in 1..Len(update) : update[j].op = "delete"}}
        rootKids == {c.ref : c \in {d \in hostBefore : d.parent = msRoot}}
    IN /\ pc = "start" => calls = <<>> /\ update = <<>>
       /\ (pc # "start" /\ deletePrevious) =>
             /\ deleted = rootKids
             /\ Len(update) >= Cardinality(rootKids)
             /\ \A k \in 1..Len(update) :
                   (update[k].op = "delete") <=> (k <= Cardinality(rootKids))
       /\ (pc = "done" /\ deletePrevious) => hostState \cap hostBefore = {}
       /\ ~deletePrevious =>
             /\ deleted = {}
             /\ hostBefore \subseteq hostState

C6_Witness ==
    /\ pc = "done"
    /\ deletePrevious
    /\ Cardinality({c \in hostBefore : c.parent = msRoot}) >= 2
    /\ Len(ActionCalls) >= 2
    /\ hostState # {}

----------------------------------------------------------------------------
(* JSON values, canonicalJsonString, stringHash *)

\* Strings are sequences of UTF-16 code units.
S_source == <<115, 111, 117, 114, 99, 101>>   \* "source"
S_name == <<110, 97, 109, 101>>   \* "name"
S_url == <<117, 114, 108>>   \* "url"
S_params == <<112, 97, 114, 97, 109, 115>>   \* "params"
S_format == <<102, 111, 114, 109, 97, 116>>   \* "format"
S_schema == <<115, 99, 104, 101, 109, 97>>   \* "schema"
S_cifBlock == <<99, 105, 102, 66, 108, 111, 99, 107>>   \* "cifBlock"
S_header == <<104, 101, 97, 100, 101, 114>>   \* "header"
S_index == <<105, 110, 100, 101, 120>>   \* "index"
S_cifCategory == <<99, 105, 102, 67, 97, 116, 101, 103, 111, 114, 121>>   \* "cifCategory"
S_source_cif == <<115, 111, 117, 114, 99, 101, 45, 99, 105, 102>>   \* "source-cif"
S_id == <<105, 100>>   \* "id"
S_null == <<110, 117, 108, 108>>   \* "null"
S_true == <<116, 114, 117, 101>>   \* "true"
S_false == <<102, 97, 108, 115, 101>>   \* "false"
V_Aa == <<65, 97>>   \* "Aa"
V_BB == <<66, 66>>   \* "BB"
V_cif == <<99, 105, 102>>   \* "cif"
V_json == <<106, 115, 111, 110>>   \* "json"
V_atom == <<97, 116, 111, 109>>   \* "atom"
V_residue == <<114, 101, 115, 105, 100, 117, 101>>   \* "residue"
V_H == <<72>>   \* "H"
V_c == <<99>>   \* "c"

\* The type Json (plus undefined): a tag and a payload. An object's payload is
\* the sequence of its <<key, value>> properties in insertion order.
JString(str) == <<"string", str>>
JNumber(num) == <<"number", num>>
JBoolean(b) == <<"boolean", b>>
JNull == <<"null", <<>>>>
JUndefined == <<"undefined", <<>>>>
JArray(items) == <<"array", items>>
JObject(props) == <<"object", props>>

\* obj[key]
RECURSIVE GetProp(_, _)
GetProp(props, key) ==
    IF props = <<>> THEN JUndefined
    ELSE IF Head(props)[1] = key THEN Head(props)[2]
    ELSE GetProp(Tail(props), key)

isReallyObject(v) == v[1] = "object"

isDefined(v) == v # JUndefined /\ v # JNull

\* a < b for strings, as Array.prototype.sort() compares keys (by code units).
RECURSIVE StrLess(_, _)
StrLess(a, b) ==
    IF b = <<>> THEN FALSE
    ELSE IF a = <<>> THEN TRUE
    ELSE IF Head(a) # Head(b) THEN Head(a) < Head(b)
    ELSE StrLess(Tail(a), Tail(b))

\* Object.keys(obj).sort()
RECURSIVE InsertKey(_, _)
InsertKey(sorted, key) ==
    IF sorted = <<>> THEN <<key>>
    ELSE IF StrLess(key, Head(sorted)) THEN <<key>> \o sorted
    ELSE <<Head(sorted)>> \o InsertKey(Tail(sorted), key)

RECURSIVE SortedKeys(_)
SortedKeys(props) ==
    IF props = <<>> THEN <<>>
    ELSE InsertKey(SortedKeys(Tail(props)), Head(props)[1])

\* sortObjectKeys(obj): keys sorted, properties whose value is undefined dropped.
RECURSIVE SortedProps(_, _)
SortedProps(props, keys) ==
    IF keys = <<>> THEN <<>>
    ELSE LET value == GetProp(props, Head(keys))
         IN (IF value # JUndefined THEN <<<<Head(keys), value>>>> ELSE <<>>)
                \o SortedProps(props, Tail(keys))

\* An object that is left with its keys in the order it has them.
sortObjectKeysInOrder(obj) == obj

\* sortObjectKeys(obj): keys sorted, keys whose value is undefined dropped.
sortObjectKeys(obj) == JObject(SortedProps(obj[2], SortedKeys(obj[2])))

\* Decimal digits of a number (the integers that occur as block indices).
RECURSIVE Digits(_)
Digits(num) ==
    IF num < 10 THEN <<48 + num>>
    ELSE Digits(num \div 10) \o <<48 + (num % 10)>>

NumberToString(num) == IF num < 0 THEN <<45>> \o Digits(0 - num) ELSE Digits(num)

\* JSON.stringify's quoting of a string: '"' and '\' are escaped (the strings
\* of the model hold no control characters).
RECURSIVE Escaped(_)
Escaped(str) ==
    IF str = <<>> THEN <<>>
    ELSE (IF Head(str) \in {34, 92} THEN <<92, Head(str)>> ELSE <<Head(str)>>)
            \o Escaped(Tail(str))

Quote(str) == <<34>> \o Escaped(str) \o <<34>>

\* JSON.stringify(obj, replacer) with the replacer of canonicalJsonString:
\* every value is passed through the replacer before it is serialized; a
\* property whose (replaced) value is undefined is left out, an undefined array
\* element is written as null.
RECURSIVE Stringify(_)
RECURSIVE StringifyProps(_, _)
RECURSIVE StringifyItems(_, _)
Stringify(value) ==
    LET v == IF isReallyObject(value) THEN sortObjectKeys(value) ELSE value
    IN CASE v[1] = "string" -> Quote(v[2])
         [] v[1] = "number" -> NumberToString(v[2])
         [] v[1] = "boolean" -> IF v[2] THEN S_true ELSE S_false
         [] v[1] = "null" -> S_null
         [] v[1] = "array" -> <<91>> \o StringifyItems(v[2], TRUE) \o <<93>>
         [] v[1] = "object" -> <<123>> \o StringifyProps(v[2], TRUE) \o <<125>>

StringifyProps(props, first) ==
    IF props = <<>> THEN <<>>
    ELSE IF Head(props)[2] = JUndefined THEN StringifyProps(Tail(props), first)
    ELSE (IF first THEN <<>> ELSE <<44>>)
            \o Quote(Head(props)[1]) \o <<58>> \o Stringify(Head(props)[2])
            \o StringifyProps(Tail(props), FALSE)

StringifyItems(items, first) ==
    IF items = <<>> THEN <<>>
    ELSE (IF first THEN <<>> ELSE <<44>>)
            \o (IF Head(items) = JUndefined THEN S_null ELSE Stringify(Head(items)))
            \o StringifyItems(Tail(items), FALSE)

canonicalJsonString(obj) == Stringify(obj)

\* Width of the halves in which a uint32 is kept: [hi, lo], value hi * 2^16 + lo.
HalfWord == 65536

\* hashString of mol-data/util: h = (h << 5) - h + s.charCodeAt(i) | 0, from 0;
\* one step is h * 31 + c modulo 2^32.
HashStep(h, c) ==
    LET low == h.lo * 31 + c
        high == h.hi * 31 + (low \div HalfWord)
    IN [hi |-> high % HalfWord, lo |-> low % HalfWord]

\* The loop over str[i..j], left to right (split in halves, and h evaluated
\* first, to keep the evaluation shallow; the steps and their order are those
\* of the loop).
RECURSIVE HashRange(_, _, _, _)
HashRange(h, str, i, j) ==
    IF h.lo < 0 \/ i > j THEN h
    ELSE IF i = j THEN HashStep(h, str[i])
    ELSE HashRange(HashRange(h, str, i, (i + j) \div 2), str, ((i + j) \div 2) + 1, j)

hashString(str) == HashRange([hi |-> 0, lo |-> 0], str, 1, Len(str))

\* Number.prototype.toString(16) of a uint32 kept in halves.
HexDigit(d) == IF d < 10 THEN 48 + d ELSE 87 + d

RECURSIVE HexDigits(_)
HexDigits(num) ==
    IF num < 16 THEN <<HexDigit(num)>>
    ELSE HexDigits(num \div 16) \o <<HexDigit(num % 16)>>

RECURSIVE PadStart(_, _, _)
PadStart(str, len, fill) ==
    IF Len(str) >= len THEN str ELSE PadStart(<<fill>> \o str, len, fill)

ToHexString(h) ==
    IF h.hi = 0 THEN HexDigits(h.lo)
    ELSE HexDigits(h.hi) \o PadStart(HexDigits(h.lo), 4, 48)

\* stringHash(input): (hashString(input) >>> 0).toString(16).padStart(8, '0')
stringHash(input) == PadStart(ToHexString(hashString(input)), 8, 48)

----------------------------------------------------------------------------
(* collectAnnotationReferences *)

AnnotationFromUriKinds == {"color_from_uri", "component_from_uri", "label_from_uri", "tooltip_from_uri"}

AnnotationFromSourceKinds == {"color_from_source", "component_from_source", "label_from_source", "tooltip_from_source"}

\* node.params.<field>: params are the <<field, value>> properties of the node.
Param(params, field) ==
    IF \E k \in 1..Len(params) : params[k][1] = field
    THEN params[CHOOSE k \in 1..Len(params) : params[k][1] = field][2]
    ELSE JUndefined

\* blockSpec(header, index)
blockSpec(header, index) ==
    IF isDefined(header)
    THEN JObject(<< <<S_name, JString(S_header)>>,
                    <<S_params, JObject(<< <<S_header, header>> >>)>> >>)
    ELSE JObject(<< <<S_name, JString(S_index)>>,
                    <<S_params, JObject(<< <<S_index, IF isDefined(index) THEN index ELSE JNumber(0)>> >>)>> >>)

\* value ?? undefined
OrUndefined(v) == IF isDefined(v) THEN v ELSE JUndefined

\* A spec that depends on what the node is for (its kind), not only on where
\* the annotation data come from.
AnnotationSpecWithKind(kind, p) ==
    JObject(<< <<S_source, JObject(<< <<S_name, JString(IF kind \in {"color_from_uri", "color_from_source"}
                                                        THEN S_url ELSE S_source_cif)>>,
                                      <<S_params, JObject(<<>>)>> >>)>>,
               <<S_schema, Param(p, "schema")>>,
               <<S_cifBlock, blockSpec(Param(p, "block_header"), Param(p, "block_index"))>>,
               <<S_cifCategory, OrUndefined(Param(p, "category_name"))>> >>)

\* The spec (without id) built for an annotation node, lines 414-420; JUndefined
\* for a node of another kind.
AnnotationSpec(kind, p) ==
    IF kind \in AnnotationFromUriKinds
    THEN JObject(<< <<S_source, JObject(<< <<S_name, JString(S_url)>>,
                                           <<S_params, JObject(<< <<S_url, Param(p, "uri")>>,
                                                                  <<S_format, Param(p, "format")>> >>)>> >>)>>,
                    <<S_schema, Param(p, "schema")>>,
                    <<S_cifBlock, blockSpec(Param(p, "block_header"), Param(p, "block_index"))>>,
                    <<S_cifCategory, OrUndefined(Param(p, "category_name"))>> >>)
    ELSE IF kind \in AnnotationFromSourceKinds
    THEN JObject(<< <<S_source, JObject(<< <<S_name, JString(S_source_cif)>>,
                                           <<S_params, JObject(<<>>)>> >>)>>,
                    <<S_schema, Param(p, "schema")>>,
                    <<S_cifBlock, blockSpec(Param(p, "block_header"), Param(p, "block_index"))>>,
                    <<S_cifCategory, OrUndefined(Param(p, "category_name"))>> >>)
    ELSE JUndefined

\* A spec whose id is made from the key and the number of the interpretation,
\* as an id that is drawn anew each time would be.
WithIdOfRun(spec, key) == JObject(spec[2] \o << <<S_id, JString(stringHash(key \o <<48 + run>>))>> >>)

\* { ...spec, id: stringHash(key) }
WithId(spec, key) == JObject(spec[2] \o << <<S_id, JString(stringHash(key))>> >>)

\* A registry keyed by the id (the hash of the canonical string).
RegistryKeyHashed(key) == stringHash(key)

\* The property name under which a spec is kept in distinctSpecs: the
\* canonical string itself.
RegistryKey(key) == key

\* A registry whose newest property comes first.
RegistryAddFront(registry, name, spec) ==
    IF \E k \in 1..Len(registry) : registry[k].name = name
    THEN registry
    ELSE <<[name |-> name, spec |-> spec]>> \o registry

\* distinctSpecs[key] ??= entry: a new property goes after the existing ones,
\* which is the order of Object.values (the keys are no array indices).
RegistryAdd(registry, name, spec) ==
    IF \E k \in 1..Len(registry) : registry[k].name = name
    THEN registry
    ELSE Append(registry, [name |-> name, spec |-> spec])

RegistryGet(registry, name) ==
    registry[CHOOSE k \in 1..Len(registry) : registry[k].name = name].spec

\* The dfs callback of collectAnnotationReferences on node i, lines 412-426.
CollectVisit(t, i, acc) ==
    LET spec == AnnotationSpec(t.node[i].kind, t.node[i].params)
    IN IF spec = JUndefined THEN acc
       ELSE LET key == canonicalJsonString(spec)
                registry == RegistryAdd(acc.distinctSpecs, RegistryKey(key), WithId(spec, key))
                id == GetProp(RegistryGet(registry, RegistryKey(key))[2], S_id)[2]
            IN [distinctSpecs |-> registry,
                annotationMap |-> MappingSet(acc.annotationMap, i, id)]

RECURSIVE CollectWalk(_, _, _)
CollectWalk(t, visits, acc) ==
    IF visits = <<>> THEN acc
    ELSE CollectWalk(t, Tail(visits), CollectVisit(t, Head(visits).node, acc))

\* collectAnnotationReferences(tree, context) on a fresh context.
collectAnnotationReferences(t) ==
    LET acc == CollectWalk(t, dfsVisits(t), [distinctSpecs |-> <<>>, annotationMap |-> EmptyMap])
    IN [specs |-> [k \in 1..Len(acc.distinctSpecs) |-> acc.distinctSpecs[k].spec],
        annotationMap |-> acc.annotationMap]

\* The nodes the trees are made of: the root (the first choice, and only the
\* root), every annotation kind, parameters that are equal up to key order and
\* undefined fields, and parameters that differ in one field.
AnnNodeChoices ==
    << [kind |-> "root", params |-> <<>>],
      [kind |-> "color", params |-> << <<"color", JString(V_c)>> >>],
      [kind |-> "color_from_uri",
       params |-> << <<"uri", JString(V_Aa)>>, <<"format", JString(V_cif)>>, <<"schema", JString(V_atom)>> >>],
      [kind |-> "label_from_uri",
       params |-> << <<"field_name", JString(V_c)>>, <<"category_name", JUndefined>>, <<"schema", JString(V_atom)>>,
                     <<"block_index", JUndefined>>, <<"format", JString(V_cif)>>, <<"uri", JString(V_Aa)>> >>],
      [kind |-> "component_from_uri",
       params |-> << <<"uri", JString(V_BB)>>, <<"format", JString(V_cif)>>, <<"schema", JString(V_atom)>> >>],
      [kind |-> "tooltip_from_uri",
       params |-> << <<"uri", JString(V_Aa)>>, <<"format", JString(V_json)>>, <<"schema", JString(V_atom)>> >>],
      [kind |-> "color_from_uri",
       params |-> << <<"uri", JString(V_Aa)>>, <<"format", JString(V_cif)>>, <<"schema", JString(V_atom)>>,
                     <<"block_header", JString(V_H)>> >>],
      [kind |-> "label_from_uri",
       params |-> << <<"uri", JString(V_Aa)>>, <<"format", JString(V_cif)>>, <<"schema", JString(V_atom)>>,
                     <<"block_header", JString(V_H)>>, <<"block_index", JNumber(1)>> >>],
      [kind |-> "color_from_uri",
       params |-> << <<"uri", JString(V_Aa)>>, <<"format", JString(V_cif)>>, <<"schema", JString(V_atom)>>,
                     <<"block_index", JNumber(1)>> >>],
      [kind |-> "color_from_source", params |-> << <<"schema", JString(V_atom)>> >>],
      [kind |-> "label_from_source",
       params |-> << <<"block_header", JUndefined>>, <<"field_name", JString(V_c)>>, <<"schema", JString(V_atom)>> >>],
      [kind |-> "component_from_source", params |-> << <<"schema", JString(V_residue)>> >>],
      [kind |-> "tooltip_from_source",
       params |-> << <<"schema", JString(V_atom)>>, <<"category_name", JString(V_c)>> >>],
      [kind |-> "tooltip_from_uri",
       params |-> << <<"uri", JString(V_Aa)>>, <<"format", JString(V_cif)>>, <<"schema", JString(V_atom)>>,
                     <<"block_index", JNumber(0)>> >>] >>

\* The tree of shape p whose node i is the choice c[i].
AnnTreeOf(n, p, c) == [n |-> n, parent |-> p, node |-> [i \in 1..n |-> AnnNodeChoices[c[i]]]]

LoadIdle ==
    /\ tree = [n |-> 0]
    /\ loadingActions = {}
    /\ deletePrevious = FALSE
    /\ hostState = {}
    /\ hostBefore = {}
    /\ update = <<>>
    /\ walk = <<>>
    /\ mapping = EmptyMap
    /\ pos = 1
    /\ pc = "idle"
    /\ calls = <<>>
    /\ warnings = <<>>

InitAnnotations ==
    /\ \E n \in 1..MaxAnnNodes :
          \E p \in TreeShapes(n) :
             \E c \in [1..n -> 1..Len(AnnNodeChoices)] :
                /\ c[1] = 1
                /\ \A i \in 2..n : c[i] # 1
                /\ annTree = AnnTreeOf(n, p, c)
    /\ annotationMap = EmptyMap
    /\ annSpecs = <<>>
    /\ annPc = "input"
    /\ LoadIdle
    /\ HelpersIdle
    /\ TwiceIdle
    /\ LaterIdle

\* One call of collectAnnotationReferences(annTree, context).
CollectAnnotationReferences ==
    /\ annPc = "input"
    /\ LET result == collectAnnotationReferences(annTree)
       IN /\ annSpecs' = result.specs
          /\ annotationMap' = result.annotationMap
    /\ annPc' = "collected"
    /\ UNCHANGED annTree
    /\ UNCHANGED loadVars
    /\ UNCHANGED <<helperVars, twiceVars>>
    /\ UNCHANGED laterVars

NextAnnotations == CollectAnnotationReferences

SpecAnnotations == InitAnnotations /\ [][NextAnnotations]_vars

\* The same call on larger trees made of fewer nodes: a node that is no
\* annotation node and three annotation nodes with different specs.
OrderChoices == <<1, 2, 3, 5, 10>>

InitOrder ==
    /\ \E n \in 1..MaxOrderNodes :
          \E p \in TreeShapes(n) :
             \E c \in [1..n -> 1..Len(OrderChoices)] :
                /\ c[1] = 1
                /\ \A i \in 2..n : c[i] # 1
                /\ annTree = AnnTreeOf(n, p, [i \in 1..n |-> OrderChoices[c[i]]])
    /\ annotationMap = EmptyMap
    /\ annSpecs = <<>>
    /\ annPc = "input"
    /\ LoadIdle
    /\ HelpersIdle
    /\ TwiceIdle
    /\ LaterIdle

SpecOrder == InitOrder /\ [][NextAnnotations]_vars

----------------------------------------------------------------------------
(* Properties of collectAnnotationReferences *)

AnnotationKinds == AnnotationFromUriKinds \cup AnnotationFromSourceKinds

AnnotationNodes == {i \in 1..annTree.n : annTree.node[i].kind \in AnnotationKinds}

\* The annotation-source parameters of a node.
AnnFields == {"uri", "format", "schema", "block_header", "block_index", "category_name"}

NodeParam(i, f) == Param(annTree.node[i].params, f)

\* Field-for-field identical up to key order and undefined-valued fields: an
\* absent field reads as undefined.
SameSourceParams(a, b) == \A f \in AnnFields : NodeParam(a, f) = NodeParam(b, f)

DifferingFields(a, b) == {f \in AnnFields : NodeParam(a, f) # NodeParam(b, f)}

SameFamily(a, b) ==
    annTree.node[a].kind \in AnnotationFromUriKinds <=> annTree.node[b].kind \in AnnotationFromUriKinds

NodeSpec(i) == AnnotationSpec(annTree.node[i].kind, annTree.node[i].params)

\* A returned spec without its id, and its id.
SpecBody(s) == JObject(SelectSeq(s[2], LAMBDA pr : pr[1] # S_id))

SpecId(s) == GetProp(s[2], S_id)[2]

\* The positions of the returned list that hold the spec of node i.
Positions(i) == {k \in 1..Len(annSpecs) : SpecBody(annSpecs[k]) = NodeSpec(i)}

\* C7: two annotation nodes (of any of the eight kinds) whose annotation-source
\* parameters are field-for-field identical, up to key order and fields whose
\* value is undefined, have the same id in annotationMap, and the returned list
\* holds exactly one spec for the two of them.
C7_IdenticalParamsShareSpec ==
    annPc = "collected" =>
        \A a \in AnnotationNodes : \A b \in AnnotationNodes :
            (a # b /\ SameSourceParams(a, b)) =>
                /\ a \in DOMAIN annotationMap
                /\ b \in DOMAIN annotationMap
                /\ annotationMap[a] = annotationMap[b]
                /\ Cardinality(Positions(a) \cup Positions(b)) = 1

\* Two nodes of different kinds, their parameters written in different key
\* orders and one with fields set to undefined, have got one id and one spec.
C7_Witness ==
    /\ annPc = "collected"
    /\ \E a \in AnnotationNodes : \E b \in AnnotationNodes :
          /\ a # b
          /\ annTree.node[a].kind # annTree.node[b].kind
          /\ Len(annTree.node[a].params) # Len(annTree.node[b].params)
          /\ \E k \in 1..Len(annTree.node[b].params) : annTree.node[b].params[k][2] = JUndefined
          /\ SameSourceParams(a, b)
          /\ annotationMap[a] = annotationMap[b]
          /\ Cardinality(Positions(a) \cup Positions(b)) = 1
          /\ Len(annSpecs) = 1

\* C8 as stated: two annotation nodes of the same family whose parameters
\* differ in a single one of uri, format, schema, block_header, block_index,
\* category_name have different ids in annotationMap.
C8_SingleFieldDifferentId ==
    annPc = "collected" =>
        \A a \in AnnotationNodes : \A b \in AnnotationNodes :
            (SameFamily(a, b) /\ Cardinality(DifferingFields(a, b)) = 1) =>
                annotationMap[a] # annotationMap[b]

\* A parameter as the spec reads it: null is undefined for block_header and
\* category_name, null and undefined are 0 for block_index.
NormalParam(i, f) ==
    IF f = "block_index"
    THEN IF isDefined(NodeParam(i, f)) THEN NodeParam(i, f) ELSE JNumber(0)
    ELSE IF f \in {"block_header", "category_name"}
    THEN IF isDefined(NodeParam(i, f)) THEN NodeParam(i, f) ELSE JUndefined
    ELSE NodeParam(i, f)

\* The single differing field is one the spec depends on: any field but
\* block_index, or block_index on nodes without a block_header.
EffectiveDifference(a, b) ==
    \E f \in AnnFields :
        /\ DifferingFields(a, b) = {f}
        /\ NormalParam(a, f) # NormalParam(b, f)
        /\ f = "block_index" => ~isDefined(NodeParam(a, "block_header"))

\* C8, amended: two annotation nodes of the same family whose parameters differ
\* in a single field the spec depends on are given two different specs, at two
\* positions of the returned list, and each node has the id of its own spec in
\* annotationMap (the two ids are hashes and need not differ).
C8_EffectiveFieldDistinctSpec ==
    annPc = "collected" =>
        \A a \in AnnotationNodes : \A b \in AnnotationNodes :
            (SameFamily(a, b) /\ EffectiveDifference(a, b)) =>
                \E j \in Positions(a) : \E k \in Positions(b) :
                    /\ j # k
                    /\ annotationMap[a] = SpecId(annSpecs[j])
                    /\ annotationMap[b] = SpecId(annSpecs[k])

\* Two nodes that differ in the schema only have got two specs and two ids.
C8_Witness ==
    /\ annPc = "collected"
    /\ \E a \in AnnotationNodes : \E b \in AnnotationNodes :
          /\ SameFamily(a, b)
          /\ DifferingFields(a, b) = {"schema"}
          /\ EffectiveDifference(a, b)
          /\ annotationMap[a] # annotationMap[b]
          /\ Len(annSpecs) = 2
          /\ Positions(a) # Positions(b)

\* The first node, in document order, whose spec is at position k of the
\* returned list.
FirstNode(k) ==
    CHOOSE i \in AnnotationNodes :
        /\ SpecBody(annSpecs[k]) = NodeSpec(i)
        /\ \A y \in AnnotationNodes :
              (y # i /\ NodeSpec(y) = NodeSpec(i)) => DocBefore(annTree, i, y)

\* C9: the returned list holds the spec of every annotation node and nothing
\* else, no spec twice, and the specs are in the order in which the depth-first
\* walk first meets a node with that spec.
C9_DistinctSpecsInFirstEncounterOrder ==
    annPc = "collected" =>
        /\ \A i \in AnnotationNodes : Positions(i) # {}
        /\ \A k \in 1..Len(annSpecs) : \E i \in AnnotationNodes : k \in Positions(i)
        /\ \A j \in 1..Len(annSpecs) : \A k \in 1..Len(annSpecs) :
              j < k =>
                 /\ SpecBody(annSpecs[j]) # SpecBody(annSpecs[k])
                 /\ DocBefore(annTree, FirstNode(j), FirstNode(k))

\* A spec met twice, with another spec first met between the two, on a tree
\* whose depth-first order is not the order of the node numbers.
C9_Witness ==
    /\ annPc = "collected"
    /\ Len(annSpecs) = 2
    /\ \E a \in AnnotationNodes : \E b \in AnnotationNodes : \E c \in AnnotationNodes :
          /\ DocBefore(annTree, a, b)
          /\ DocBefore(annTree, b, c)
          /\ c < b
          /\ NodeSpec(a) = NodeSpec(c)
          /\ NodeSpec(a) # NodeSpec(b)
          /\ Positions(a) = {1}
          /\ Positions(b) = {2}

----------------------------------------------------------------------------
(* makeNearestReprMap *)

\* Largest number of nodes of a tree given to makeNearestReprMap.
MaxReprNodes == 5

\* The nodes the trees are made of: a root node (at the root only), and nodes
\* that are a structure, a representation, or neither. The tree is a root tree
\* or the subtree of a structure.
ReprNodeChoices ==
    << [kind |-> "root"],
       [kind |-> "structure"],
       [kind |-> "representation"],
       [kind |-> "label_from_uri"] >>

ReprTreeOf(n, p, c) == [n |-> n, parent |-> p, node |-> [i \in 1..n |-> ReprNodeChoices[c[i]]]]

\* map.has(node)
MapHas(m, i) == i \in DOMAIN m

\* A first pass that pushes a mapping up from every node, structures included.
PropagateUpVisitAboveStructure(t, m, node, parent) ==
    LET m1 == IF t.node[node].kind = "representation" THEN MappingSet(m, node, node) ELSE m
    IN IF MapHas(m1, node) /\ parent # 0 /\ ~MapHas(m1, parent)
       THEN MappingSet(m1, parent, m1[node])
       ELSE m1

\* The postVisit callback of the first dfs, lines 638-643 (parent 0: undefined).
PropagateUpVisit(t, m, node, parent) ==
    LET m1 == IF t.node[node].kind = "representation" THEN MappingSet(m, node, node) ELSE m
    IN IF t.node[node].kind # "structure" /\ MapHas(m1, node) /\ parent # 0 /\ ~MapHas(m1, parent)
       THEN MappingSet(m1, parent, m1[node])
       ELSE m1

\* A second pass that does not hand a mapping down to a structure node.
PropagateDownVisitWithinStructure(t, m, node, parent) ==
    IF parent # 0 /\ MapHas(m, parent) /\ t.node[node].kind # "structure"
    THEN MappingSet(m, node, m[parent])
    ELSE m

\* The visit callback of the second dfs, lines 646-649.
PropagateDownVisit(t, m, node, parent) ==
    IF parent # 0 /\ MapHas(m, parent)
    THEN MappingSet(m, node, m[parent])
    ELSE m

\* dfs(root, undefined, postVisit): the first pass.
RECURSIVE PropagateUpWalk(_, _, _)
PropagateUpWalk(t, visits, m) ==
    IF visits = <<>> THEN m
    ELSE PropagateUpWalk(t, Tail(visits), PropagateUpVisit(t, m, Head(visits).node, Head(visits).parent))

PropagateUp(t, m) == PropagateUpWalk(t, dfsPostVisits(t), m)

\* dfs(root, visit): the second pass.
RECURSIVE PropagateDownWalk(_, _, _)
PropagateDownWalk(t, visits, m) ==
    IF visits = <<>> THEN m
    ELSE PropagateDownWalk(t, Tail(visits), PropagateDownVisit(t, m, Head(visits).node, Head(visits).parent))

PropagateDown(t, m) == PropagateDownWalk(t, dfsVisits(t), m)

\* makeNearestReprMap(root)
makeNearestReprMap(t) == PropagateDown(t, PropagateUp(t, EmptyMap))

InitRepr ==
    /\ \E n \in 1..MaxReprNodes :
          \E p \in TreeShapes(n) :
             \E c \in [1..n -> 1..Len(ReprNodeChoices)] :
                /\ c[1] \in {1, 2}
                /\ \A i \in 2..n : c[i] # 1
                /\ reprTree = ReprTreeOf(n, p, c)
    /\ nearestReprMap = EmptyMap
    /\ reprPc = "input"
    /\ LoadIdle
    /\ AnnIdle
    /\ ColorIdle
    /\ TransformIdle
    /\ ElementIdle
    /\ TwiceIdle
    /\ LaterIdle

\* makeNearestReprMap up to the end of its first dfs.
MakeNearestReprMapUp ==
    /\ reprPc = "input"
    /\ nearestReprMap' = PropagateUp(reprTree, EmptyMap)
    /\ reprPc' = "up"
    /\ UNCHANGED <<reprTree, loadVars, annVars, colorVars, transformVars, elementVars, twiceVars>>
    /\ UNCHANGED laterVars

\* The second dfs of makeNearestReprMap, and its return.
MakeNearestReprMapDown ==
    /\ reprPc = "up"
    /\ nearestReprMap' = PropagateDown(reprTree, nearestReprMap)
    /\ reprPc' = "down"
    /\ UNCHANGED <<reprTree, loadVars, annVars, colorVars, transformVars, elementVars, twiceVars>>
    /\ UNCHANGED laterVars

NextRepr == MakeNearestReprMapUp \/ MakeNearestReprMapDown

SpecRepr == InitRepr /\ [][NextRepr]_vars

----------------------------------------------------------------------------
(* Properties of makeNearestReprMap *)

ReprKind(i) == reprTree.node[i].kind

Representations == {i \in 1..reprTree.n : ReprKind(i) = "representation"}

Structures == {i \in 1..reprTree.n : ReprKind(i) = "structure"}

\* The nodes of the subtree of x, x included.
ReprSubtree(x) == {y \in 1..reprTree.n : y = x \/ IsAncestor(reprTree, x, y)}

RECURSIVE ReprDepth(_)
ReprDepth(x) == IF reprTree.parent[x] = 0 THEN 0 ELSE 1 + ReprDepth(reprTree.parent[x])

\* Number of edges between x and y.
ReprDistance(x, y) == ReprDepth(x) + ReprDepth(y) - 2 * ReprDepth(Lca(reprTree, x, y))

\* The structure subtrees around x that contain a representation, and the
\* lowest of them.
GoverningStructures(x) ==
    {s \in Structures : x \in ReprSubtree(s) /\ ReprSubtree(s) \cap Representations # {}}

LowestStructure(x) ==
    CHOOSE s \in GoverningStructures(x) : \A s2 \in GoverningStructures(x) : s2 <= s

\* The representations of that structure subtree that are closest to x.
ClosestRepresentations(x) ==
    LET candidates == ReprSubtree(LowestStructure(x)) \cap Representations
    IN {r \in candidates : \A r2 \in candidates : ReprDistance(x, r) <= ReprDistance(x, r2)}

\* C11 as stated: in the returned map, a label node L whose parent is a
\* structure with one representation child R (and no representation below L)
\* maps to R, and every node of a structure subtree that contains a
\* representation maps to a closest representation of the lowest such
\* structure subtree around it.
C11_NearestRepresentation ==
    reprPc = "down" =>
        /\ \A s \in Structures : \A r \in Representations : \A l \in 1..reprTree.n :
              ( /\ reprTree.parent[r] = s
                /\ reprTree.parent[l] = s
                /\ ReprKind(l) = "label_from_uri"
                /\ ReprSubtree(l) \cap Representations = {}
                /\ \A r2 \in Representations : reprTree.parent[r2] = s => r2 = r )
              => (MapHas(nearestReprMap, l) /\ nearestReprMap[l] = r)
        /\ \A x \in 1..reprTree.n :
              GoverningStructures(x) # {} =>
                 (MapHas(nearestReprMap, x) /\ nearestReprMap[x] \in ClosestRepresentations(x))

\* C12 as stated: for structure1 -> representation R1 -> structure2 -> label L,
\* L maps to R1 when the subtree of structure2 has no representation, and to a
\* representation of the subtree of structure2 (not R1) when it has one.
C12_NestedStructure ==
    reprPc = "down" =>
        \A s1 \in Structures : \A r1 \in Representations : \A s2 \in Structures : \A l \in 1..reprTree.n :
            ( /\ reprTree.parent[r1] = s1
              /\ reprTree.parent[s2] = r1
              /\ reprTree.parent[l] = s2
              /\ ReprKind(l) = "label_from_uri" )
            => /\ MapHas(nearestReprMap, l)
               /\ IF ReprSubtree(s2) \cap Representations = {}
                  THEN nearestReprMap[l] = r1
                  ELSE nearestReprMap[l] \in ReprSubtree(s2) \cap Representations

\* C13 as stated: after the first pass no structure node is in the map.
C13_NoStructureAfterPassOne ==
    reprPc = "up" => \A x \in Structures : ~MapHas(nearestReprMap, x)

\* C13, amended: after the first pass every mapped node maps to a
\* representation of its own subtree, and no node on the way from that
\* representation up to the mapped node (the mapped node excluded) is a
\* structure: a structure takes the representation pushed by a child but does
\* not push it on to its parent.
C13_PushStopsAtStructure ==
    reprPc = "up" =>
        \A x \in DOMAIN nearestReprMap :
            /\ nearestReprMap[x] \in Representations \cap ReprSubtree(x)
            /\ \A y \in ReprSubtree(x) \ {x} :
                  nearestReprMap[x] \in ReprSubtree(y) => ReprKind(y) # "structure"

\* After the first pass a structure is mapped to the representation below one
\* of its children, and the parent of the structure is left unmapped.
C13_Witness ==
    /\ reprPc = "up"
    /\ \E s \in Structures :
          /\ MapHas(nearestReprMap, s)
          /\ nearestReprMap[s] # s
          /\ reprTree.parent[nearestReprMap[s]] # s
          /\ reprTree.parent[s] # 0
          /\ ~MapHas(nearestReprMap, reprTree.parent[s])

----------------------------------------------------------------------------
(* decodeColor, componentPropsFromSelector, colorThemeForNode *)

\* Largest number of nodes of the tree of a representation node given to
\* colorThemeForNode.
MaxColorNodes == 3

V_all == <<97, 108, 108>>   \* "all"
V_polymer == <<112, 111, 108, 121, 109, 101, 114>>   \* "polymer"
V_red == <<114, 101, 100>>   \* "red"
V_Blue == <<66, 108, 117, 101>>   \* "Blue"
V_blue == <<98, 108, 117, 101>>   \* "blue"
V_white == <<119, 104, 105, 116, 101>>   \* "white"
V_hexShort == <<35, 102, 48, 48>>   \* "#f00"
V_hexLong == <<35, 70, 70, 48, 48, 48, 48>>   \* "#FF0000"
V_hexBad == <<35, 102, 102, 48, 48>>   \* "#ff00"
V_annotationId == <<97, 97, 57, 51, 98, 52, 51, 102>>   \* "aa93b43f"
S_label_asym_id == <<108, 97, 98, 101, 108, 95, 97, 115, 121, 109, 95, 105, 100>>   \* "label_asym_id"

\* A Color (a number), as a value that can be compared with undefined.
Color(n) == <<"color", n>>

\* hexColorRegex.test(str): /^#([0-9A-F]{3}){1,2}$/i
IsHexDigit(c) == c \in (48..57) \cup (65..70) \cup (97..102)

isHexColorString(str) ==
    /\ Len(str) \in {4, 7}
    /\ str[1] = 35
    /\ \A k \in 2..Len(str) : IsHexDigit(str[k])

\* `#${s[1]}${s[1]}${s[2]}${s[2]}${s[3]}${s[3]}`
ExpandShortHex(str) == <<35, str[2], str[2], str[3], str[3], str[4], str[4]>>

HexDigitValue(c) == IF c <= 57 THEN c - 48 ELSE IF c <= 70 THEN c - 55 ELSE c - 87

RECURSIVE HexNumber(_, _)
HexNumber(str, k) == IF k = 0 THEN 0 ELSE HexNumber(str, k - 1) * 16 + HexDigitValue(str[k])

\* Color.fromHexStyle: the number written after the '#'.
fromHexStyle(str) == Color(HexNumber(Tail(str), Len(str) - 1))

toLowerCase(str) == [k \in 1..Len(str) |-> IF str[k] \in 65..90 THEN str[k] + 32 ELSE str[k]]

\* ColorNames[name]: the X11 colors that occur here.
ColorNames(name) ==
    IF name = V_red THEN Color(16711680)
    ELSE IF name = V_blue THEN Color(255)
    ELSE IF name = V_white THEN Color(16777215)
    ELSE JUndefined

\* decodeColor(colorString)
decodeColor(colorString) ==
    IF colorString = JUndefined THEN JUndefined
    ELSE IF isHexColorString(colorString[2])
    THEN fromHexStyle(IF Len(colorString[2]) = 4 THEN ExpandShortHex(colorString[2]) ELSE colorString[2])
    ELSE ColorNames(toLowerCase(colorString[2]))

\* DefaultColor of tree/mvs/mvs-defaults and NoColor of multilayer-color-theme.
DefaultColor == JString(V_white)

NoColor == Color(-1)

SelectorAll == [name |-> "static", params |-> JString(V_all)]

\* componentPropsFromSelector(selector); rowToExpression and rowsToExpression
\* are kept as terms over their argument.
componentPropsFromSelector(sel) ==
    IF sel = JUndefined THEN SelectorAll
    ELSE IF sel[1] = "string" THEN [name |-> "static", params |-> sel]
    ELSE IF sel[1] = "array" THEN [name |-> "expression", params |-> <<"rowsToExpression", sel>>]
    ELSE [name |-> "expression", params |-> <<"rowToExpression", sel>>]

\* A color node that is taken to colour the whole representation whatever its
\* selector.
appliesColorToWholeReprAlways(node) == TRUE

\* appliesColorToWholeRepr(node)
appliesColorToWholeRepr(node) ==
    IF node.kind = "color"
    THEN ~isDefined(Param(node.params, "selector")) \/ Param(node.params, "selector") = JString(V_all)
    ELSE TRUE

ColorKinds == {"color", "color_from_uri", "color_from_source"}

\* getChildren(node).filter(c => c.kind is a color kind)
ColorChildren(t, i) == SelectSeq(getChildren(t, i), LAMBDA c : t.node[c].kind \in ColorKinds)

\* context.annotationMap?.get(node)
AnnotationMapGet(ctx, node) == IF node \in DOMAIN ctx THEN ctx[node] ELSE JUndefined

\* An annotation id looked up for a node of any kind.
AnnotationIdOfAnyKind(t, node, ctx) == AnnotationMapGet(ctx, node)

\* The variables set by the switch on node?.kind, lines 601-610 (node 0:
\* undefined); no case of the switch leaves them undefined.
AnnotationIdOf(t, node, ctx) ==
    IF node # 0 /\ t.node[node].kind \in {"color_from_uri", "color_from_source"}
    THEN AnnotationMapGet(ctx, node)
    ELSE JUndefined

FieldNameOf(t, node) ==
    IF node # 0 /\ t.node[node].kind \in {"color_from_uri", "color_from_source"}
    THEN Param(t.node[node].params, "field_name")
    ELSE JUndefined

ColorOf(t, node) ==
    IF node # 0 /\ t.node[node].kind = "color"
    THEN Param(t.node[node].params, "color")
    ELSE JUndefined

UniformTheme(value) == [name |-> "uniform", params |-> [value |-> value]]

AnnotationTheme(annotationId, fieldName) ==
    [name |-> "annotation",
     params |-> [annotationId |-> annotationId, fieldName |-> fieldName, background |-> NoColor]]

MultilayerTheme(layers) == [name |-> "multilayer", params |-> [layers |-> layers]]

\* colorThemeForNode on a node that is no representation, lines 598-621.
NodeTheme(t, node, ctx) ==
    IF AnnotationIdOf(t, node, ctx) \notin {JUndefined, JString(<<>>)}
    THEN AnnotationTheme(AnnotationIdOf(t, node, ctx), FieldNameOf(t, node))
    ELSE UniformTheme(decodeColor(ColorOf(t, node)))

\* Layers listed from the last child to the first.
LayersReversed(t, children, ctx) ==
    [k \in 1..Len(children) |->
        [theme |-> NodeTheme(t, children[Len(children) + 1 - k], ctx),
         selection |-> componentPropsFromSelector(
             IF t.node[children[Len(children) + 1 - k]].kind = "color"
             THEN Param(t.node[children[Len(children) + 1 - k]].params, "selector")
             ELSE JUndefined)]]

\* children.map(c => ({ theme: colorThemeForNode(c, context), selection: ... }));
\* the children are no representations.
Layers(t, children, ctx) ==
    [k \in 1..Len(children) |->
        [theme |-> NodeTheme(t, children[k], ctx),
         selection |-> componentPropsFromSelector(
             IF t.node[children[k]].kind = "color"
             THEN Param(t.node[children[k]].params, "selector")
             ELSE JUndefined)]]

\* colorThemeForNode(node, context)
colorThemeForNode(t, node, ctx) ==
    IF node # 0 /\ t.node[node].kind = "representation"
    THEN IF Len(ColorChildren(t, node)) = 0
         THEN UniformTheme(decodeColor(DefaultColor))
         ELSE IF Len(ColorChildren(t, node)) = 1 /\ appliesColorToWholeRepr(t.node[ColorChildren(t, node)[1]])
         THEN NodeTheme(t, ColorChildren(t, node)[1], ctx)
         ELSE MultilayerTheme(Layers(t, ColorChildren(t, node), ctx))
    ELSE NodeTheme(t, node, ctx)

\* The nodes the trees are made of: a representation (the root of the tree, and
\* only the root), color nodes without selector and with each form of
\* selector, annotation color nodes, and a node of another kind.
ColorNodeChoices ==
    << [kind |-> "representation", params |-> <<>>],
       [kind |-> "color", params |-> << <<"color", JString(V_red)>> >>],
       [kind |-> "color", params |-> << <<"selector", JString(V_all)>>, <<"color", JString(V_hexShort)>> >>],
       [kind |-> "color", params |-> << <<"selector", JString(V_polymer)>>, <<"color", JString(V_Blue)>> >>],
       [kind |-> "color",
        params |-> << <<"selector", JObject(<< <<S_label_asym_id, JString(V_H)>> >>)>>,
                      <<"color", JString(V_hexLong)>> >>],
       [kind |-> "color",
        params |-> << <<"selector", JArray(<< JObject(<< <<S_label_asym_id, JString(V_H)>> >>) >>)>>,
                      <<"color", JString(V_hexBad)>> >>],
       [kind |-> "color_from_uri", params |-> << <<"field_name", JString(V_c)>> >>],
       [kind |-> "color_from_source", params |-> << <<"field_name", JString(V_c)>> >>],
       [kind |-> "label_from_uri", params |-> << <<"field_name", JString(V_c)>> >>] >>

ColorTreeOf(n, p, c) == [n |-> n, parent |-> p, node |-> [i \in 1..n |-> ColorNodeChoices[c[i]]]]

\* The annotationMap that collectAnnotationReferences leaves for the tree.
AnnotatedContext(t) ==
    [i \in {j \in 1..t.n : t.node[j].kind \in AnnotationFromUriKinds \cup AnnotationFromSourceKinds}
        |-> JString(V_annotationId)]

\* The argument is undefined (0), the representation, or one of the nodes below
\* it; the context has the annotation ids of the tree, or none.
InitColor ==
    /\ \E n \in 1..MaxColorNodes :
          \E p \in TreeShapes(n) :
             \E c \in [1..n -> 1..Len(ColorNodeChoices)] :
                /\ c[1] = 1
                /\ \A i \in 2..n : c[i] # 1
                /\ colorTree = ColorTreeOf(n, p, c)
    /\ colorNode \in 0..colorTree.n
    /\ colorContext \in {EmptyMap, AnnotatedContext(colorTree)}
    /\ colorTheme = <<>>
    /\ colorPc = "input"
    /\ LoadIdle
    /\ AnnIdle
    /\ ReprIdle
    /\ TransformIdle
    /\ ElementIdle
    /\ TwiceIdle
    /\ LaterIdle

\* One call of colorThemeForNode(colorNode, context): no path of it throws.
ColorThemeForNode ==
    /\ colorPc = "input"
    /\ colorTheme' = colorThemeForNode(colorTree, colorNode, colorContext)
    /\ colorPc' = "returned"
    /\ UNCHANGED <<colorTree, colorNode, colorContext>>
    /\ UNCHANGED <<loadVars, annVars, reprVars, transformVars, elementVars, twiceVars>>
    /\ UNCHANGED laterVars

NextColor == ColorThemeForNode

SpecColor == InitColor /\ [][NextColor]_vars

(* Properties of colorThemeForNode *)

\* The children of the representation that bear a color, in document order.
ColorBearing == SelectSeq(getChildren(colorTree, 1),
                          LAMBDA c : colorTree.node[c].kind \in {"color", "color_from_uri", "color_from_source"})

\* The selector parameter of a node (undefined when it has none).
SelectorOf(c) == Param(colorTree.node[c].params, "selector")

\* A 'color' node with a selector that is defined and is not 'all'.
Selective(c) ==
    /\ colorTree.node[c].kind = "color"
    /\ SelectorOf(c) # JUndefined
    /\ SelectorOf(c) # JString(V_all)

CalledOnRepresentation == colorPc = "returned" /\ colorNode = 1

\* C14: on a representation node colorThemeForNode returns the multilayer
\* theme exactly when the node has two or more color-bearing children, or one
\* that is a 'color' node with a selector other than 'all'; without such
\* children it returns uniform with the default color (white); with one
\* whole-representation child it returns that child's own theme, uniform(red)
\* for a color child with color 'red' or '#f00'.
C14_MultilayerIffLayered ==
    CalledOnRepresentation =>
        /\ (colorTheme.name = "multilayer") <=>
              (Len(ColorBearing) >= 2 \/ (Len(ColorBearing) = 1 /\ Selective(ColorBearing[1])))
        /\ Len(ColorBearing) = 0 =>
              /\ colorTheme.name = "uniform"
              /\ colorTheme.params.value = Color(16777215)
        /\ (Len(ColorBearing) = 1 /\ ~Selective(ColorBearing[1])) =>
              /\ colorTheme = colorThemeForNode(colorTree, ColorBearing[1], colorContext)
              /\ colorTree.node[ColorBearing[1]] \in {ColorNodeChoices[2], ColorNodeChoices[3]} =>
                    /\ colorTheme.name = "uniform"
                    /\ colorTheme.params.value = Color(16711680)

\* A representation whose only color-bearing child is a 'color' node with a
\* selector other than 'all' got the multilayer theme.
C14_Witness ==
    /\ CalledOnRepresentation
    /\ Len(ColorBearing) = 1
    /\ Selective(ColorBearing[1])
    /\ colorTheme.name = "multilayer"

\* The selection of the select-all selector.
IsSelectAll(selection) == selection.name = "static" /\ selection.params = JString(V_all)

\* C15: a multilayer theme returned for a representation has one layer per
\* color-bearing child, in document order; layer k has the theme that
\* colorThemeForNode yields for child k and the selection made from child k's
\* own selector, which is select-all for a 'color' child without selector and
\* for color_from_uri and color_from_source children.
C15_OneLayerPerChild ==
    (CalledOnRepresentation /\ colorTheme.name = "multilayer") =>
        /\ Len(colorTheme.params.layers) = Len(ColorBearing)
        /\ \A k \in 1..Len(ColorBearing) :
              /\ \A l \in 1..Len(ColorBearing) : k < l => DocBefore(colorTree, ColorBearing[k], ColorBearing[l])
              /\ colorTheme.params.layers[k].theme = colorThemeForNode(colorTree, ColorBearing[k], colorContext)
              /\ IF colorTree.node[ColorBearing[k]].kind = "color" /\ SelectorOf(ColorBearing[k]) # JUndefined
                 THEN colorTheme.params.layers[k].selection = componentPropsFromSelector(SelectorOf(ColorBearing[k]))
                 ELSE IsSelectAll(colorTheme.params.layers[k].selection)

\* A multilayer theme of two layers with different themes, the first of an
\* annotation and the second of a 'color' child with a selector.
C15_Witness ==
    /\ CalledOnRepresentation
    /\ colorTheme.name = "multilayer"
    /\ Len(ColorBearing) = 2
    /\ colorTheme.params.layers[1].theme.name = "annotation"
    /\ colorTheme.params.layers[2].theme.name = "uniform"
    /\ ~IsSelectAll(colorTheme.params.layers[2].selection)

RecognizedKinds == {"representation", "color", "color_from_uri", "color_from_source"}

Unrecognized == colorNode = 0 \/ colorTree.node[colorNode].kind \notin RecognizedKinds

\* C16 as stated: colorThemeForNode never returns a theme for an absent node or
\* a node of another kind than representation, color, color_from_uri and
\* color_from_source.
C16_ThrowsForOtherKinds == colorPc = "returned" => ~Unrecognized

\* C16: for an absent node and for a node of another kind colorThemeForNode
\* returns, without failing, the uniform theme whose value is undefined, also
\* when the annotation map has an id for the node.
C16_OtherKindsUniformUndefined ==
    (colorPc = "returned" /\ Unrecognized) =>
        /\ colorTheme.name = "uniform"
        /\ colorTheme.params.value = JUndefined

\* A label_from_uri node that has an annotation id got a theme.
C16_Witness ==
    /\ colorPc = "returned"
    /\ colorNode # 0
    /\ colorTree.node[colorNode].kind = "label_from_uri"
    /\ colorNode \in DOMAIN colorContext
    /\ colorTheme.name = "uniform"

----------------------------------------------------------------------------
(* transformFromRotationTranslation *)

\* Largest length of an array given as rotation or translation.
MaxArrayLen == 10

\* An argument is undefined, null or an array of numbers.
IsArray(v) == v[1] = "array"

\* An array that is taken for absent when it is empty.
TruthyNonEmpty(v) == IsArray(v) /\ Len(v[2]) > 0

\* `rotation && ...`, `if (rotation)`: undefined and null are falsy, every
\* array is truthy, the empty one too.
Truthy(v) == IsArray(v)

\* Mat4.identity(), column-major.
Mat4Identity == <<1, 0, 0, 0,  0, 1, 0, 0,  0, 0, 1, 0,  0, 0, 0, 1>>

\* Mat4.fromMat3(T, Mat3.fromArray(Mat3(), a, 0))
Mat4FromMat3(a) ==
    <<a[1], a[2], a[3], 0,  a[4], a[5], a[6], 0,  a[7], a[8], a[9], 0,  0, 0, 0, 1>>

\* Mat4.setTranslation(T, Vec3.fromArray(Vec3(), v, 0))
Mat4SetTranslation(T, v) == [k \in 1..16 |-> IF k \in 13..15 THEN v[k - 12] ELSE T[k]]

\* Mat4.isRotationAndTranslation(T): last row 0 0 0 1 and determinant of the
\* upper-left 3x3 block equal to 1.
isRotationAndTranslation(T) ==
    /\ T[16] = 1
    /\ T[4] = 0
    /\ T[8] = 0
    /\ T[12] = 0
    /\ T[1] * (T[6] * T[11] - T[7] * T[10])
         - T[2] * (T[5] * T[11] - T[7] * T[9])
         + T[3] * (T[5] * T[10] - T[6] * T[9]) = 1

\* The matrix assembled in lines 386-392.
AssembledMatrix(rot, trans) ==
    LET T1 == IF Truthy(rot) THEN Mat4FromMat3(rot[2]) ELSE Mat4Identity
    IN IF Truthy(trans) THEN Mat4SetTranslation(T1, trans[2]) ELSE T1

\* transformFromRotationTranslation(rotation, translation): the matrix, or the
\* parameter that the message of the thrown error names.
transformFromRotationTranslation(rot, trans) ==
    IF Truthy(rot) /\ Len(rot[2]) # 9 THEN <<"error", "rotation">>
    ELSE IF Truthy(trans) /\ Len(trans[2]) # 3 THEN <<"error", "translation">>
    ELSE IF ~isRotationAndTranslation(AssembledMatrix(rot, trans)) THEN <<"error", "rotation">>
    ELSE <<"matrix", AssembledMatrix(rot, trans)>>

\* Nine numbers of: the identity, a quarter turn, a shear, a scaling, a
\* reflection, the zero matrix.
RotationChoices ==
    << <<1, 0, 0,  0, 1, 0,  0, 0, 1>>,
       <<0, 1, 0,  -1, 0, 0,  0, 0, 1>>,
       <<1, 1, 0,  0, 1, 0,  0, 0, 1>>,
       <<2, 0, 0,  0, 2, 0,  0, 0, 2>>,
       <<1, 0, 0,  0, 1, 0,  0, 0, -1>>,
       <<0, 0, 0,  0, 0, 0,  0, 0, 0>> >>

TranslationChoices == << <<0, 0, 0>>, <<1, -2, 3>> >>

\* The first len numbers of a, continued with zeros.
Resize(a, len) == [k \in 1..len |-> IF k <= Len(a) THEN a[k] ELSE 0]

ArrayInputs(choices) ==
    {<<"array", Resize(choices[c], len)>> : c \in 1..Len(choices), len \in 0..MaxArrayLen}

InitTransform ==
    /\ rotation \in {JUndefined, JNull} \cup ArrayInputs(RotationChoices)
    /\ translation \in {JUndefined, JNull} \cup ArrayInputs(TranslationChoices)
    /\ transformResult = <<>>
    /\ transformPc = "input"
    /\ LoadIdle
    /\ AnnIdle
    /\ ReprIdle
    /\ ColorIdle
    /\ ElementIdle
    /\ TwiceIdle
    /\ LaterIdle

TransformFromRotationTranslation ==
    /\ transformPc = "input"
    /\ transformResult' = transformFromRotationTranslation(rotation, translation)
    /\ transformPc' = IF transformResult'[1] = "matrix" THEN "returned" ELSE "thrown"
    /\ UNCHANGED <<rotation, translation>>
    /\ UNCHANGED <<loadVars, annVars, reprVars, colorVars, elementVars, twiceVars>>
    /\ UNCHANGED laterVars

NextTransform == TransformFromRotationTranslation

SpecTransform == InitTransform /\ [][NextTransform]_vars

(* Properties of transformFromRotationTranslation *)

Absent(v) == v \in {JUndefined, JNull}

\* The determinant of nine numbers read as a 3x3 matrix.
Det3(a) ==
    a[1] * (a[5] * a[9] - a[6] * a[8])
      - a[2] * (a[4] * a[9] - a[6] * a[7])
      + a[3] * (a[4] * a[8] - a[5] * a[7])

RotationFits == Absent(rotation) \/ Len(rotation[2]) = 9

TranslationFits == Absent(translation) \/ Len(translation[2]) = 3

PassesCheck == Absent(rotation) \/ Det3(rotation[2]) = 1

\* C17: transformFromRotationTranslation returns a matrix exactly when
\* rotation is absent or has 9 values, translation is absent or has 3 values,
\* and the assembled matrix passes the rotation-and-translation check;
\* otherwise, also for an empty array, it throws an error that names an
\* offending parameter; with both arguments absent it returns the identity.
C17_MatrixOrNamedError ==
    transformPc # "input" =>
        /\ (transformPc = "returned") <=> (RotationFits /\ TranslationFits /\ PassesCheck)
        /\ (transformPc = "thrown") <=> (transformPc # "returned")
        /\ transformPc = "thrown" =>
              /\ transformResult[1] = "error"
              /\ transformResult[2] = "rotation" => (~RotationFits \/ ~PassesCheck)
              /\ transformResult[2] = "translation" => ~TranslationFits
              /\ transformResult[2] \in {"rotation", "translation"}
        /\ (rotation = <<"array", <<>>>> \/ translation = <<"array", <<>>>>) => transformPc = "thrown"
        /\ (Absent(rotation) /\ Absent(translation)) =>
              /\ transformPc = "returned"
              /\ transformResult = <<"matrix", Mat4Identity>>

\* An empty array given as translation, with a valid rotation, made the call
\* throw the error that names translation.
C17_Witness ==
    /\ transformPc = "thrown"
    /\ translation = <<"array", <<>>>>
    /\ ~Absent(rotation)
    /\ RotationFits
    /\ transformResult = <<"error", "translation">>

----------------------------------------------------------------------------
(* ElementSet.fromSelector, ElementSet.has *)

\* Largest number of units of a structure.
MaxUnits == 2

\* The model ids and the element indices of the structures.
ModelIds == {1, 2}

ElementIndices == 0..2

\* The elements of a set of indices as a SortedArray.
RECURSIVE SortedArrayOf(_)
SortedArrayOf(S) ==
    IF S = {} THEN <<>>
    ELSE LET least == CHOOSE x \in S : \A y \in S : x <= y
         IN <<least>> \o SortedArrayOf(S \ {least})

\* A unit: its model and its elements; units of one assembly may have the same
\* model and the same elements under different operators.
Units == {[model |-> m, elements |-> SortedArrayOf(S)] : m \in ModelIds, S \in (SUBSET ElementIndices) \ {{}}}

StructureInputs == UNION {[1..n -> Units] : n \in 0..MaxUnits}

V_water == <<119, 97, 116, 101, 114>>   \* "water"

SelectorChoices == {SelectorAll, [name |-> "static", params |-> JString(V_polymer)], [name |-> "static", params |-> JString(V_water)]}

\* The elements a static selector keeps: all of them for 'all', those of the
\* polymer (here every element but 0) for 'polymer', none for 'water'.
Keeps(sel, e) ==
    IF sel = SelectorAll THEN TRUE
    ELSE IF sel.params = JString(V_polymer) THEN e # 0
    ELSE FALSE

\* substructureFromSelector(structure, selector).units: the units restricted
\* to the kept elements, without the units that keep nothing.
substructureFromSelector(units, sel) ==
    LET restricted == [k \in 1..Len(units) |->
                          [model |-> units[k].model,
                           elements |-> SelectSeq(units[k].elements, LAMBDA e : Keeps(sel, e))]]
    IN SelectSeq(restricted, LAMBDA u : Len(u.elements) > 0)

\* dst after a call of extend that keeps only what it copies.
extendOverwrite(dst, src) == src

\* dst after extend(dst, src)
extend(dst, src) == dst \o src

\* array.sort((a, b) => a - b)
RECURSIVE Sorted(_)
Sorted(array) ==
    IF Len(array) = 0 THEN <<>>
    ELSE LET k == CHOOSE i \in 1..Len(array) : \A j \in 1..Len(array) : array[i] <= array[j]
         IN <<array[k]>> \o Sorted(SubSeq(array, 1, k - 1) \o SubSeq(array, k + 1, Len(array)))

\* sortIfNeeded(array, (a, b) => a - b)
sortIfNeeded(array) ==
    IF \E i \in 2..Len(array) : array[i - 1] - array[i] > 0 THEN Sorted(array) ELSE array

\* The object `arrays` after the loop over the first k units of the selection.
RECURSIVE ArraysOf(_, _)
ArraysOf(units, k) ==
    IF k = 0 THEN EmptyMap
    ELSE LET arrays == ArraysOf(units, k - 1)
             id == units[k].model
         IN MappingSet(arrays, id, extend(IF id \in DOMAIN arrays THEN arrays[id] ELSE <<>>, units[k].elements))

\* ElementSet.fromSelector(structure, selector)
fromSelector(struct, sel) ==
    IF struct = JUndefined THEN EmptyMap
    ELSE LET arrays == ArraysOf(substructureFromSelector(struct[2], sel), Len(substructureFromSelector(struct[2], sel)))
         IN [id \in DOMAIN arrays |-> sortIfNeeded(arrays[id])]

\* SortedArray.has(array, x): binary search in array[lo..hi].
RECURSIVE SortedArrayHas(_, _, _, _)
SortedArrayHas(array, x, lo, hi) ==
    IF lo > hi THEN FALSE
    ELSE LET mid == (lo + hi) \div 2
         IN IF array[mid] = x THEN TRUE
            ELSE IF x < array[mid] THEN SortedArrayHas(array, x, lo, mid - 1)
            ELSE SortedArrayHas(array, x, mid + 1, hi)

\* ElementSet.has(set, location)
has(set, loc) ==
    IF loc.model \in DOMAIN set
    THEN SortedArrayHas(set[loc.model], loc.element, 1, Len(set[loc.model]))
    ELSE FALSE

InitElement ==
    /\ structure \in {JUndefined} \cup {<<"structure", units>> : units \in StructureInputs}
    /\ selector \in SelectorChoices
    /\ elementSet = <<>>
    /\ elementPc = "input"
    /\ location = <<>>
    /\ hasResult = FALSE
    /\ LoadIdle
    /\ AnnIdle
    /\ ReprIdle
    /\ ColorIdle
    /\ TransformIdle
    /\ TwiceIdle
    /\ LaterIdle

FromSelector ==
    /\ elementPc = "input"
    /\ elementSet' = fromSelector(structure, selector)
    /\ elementPc' = "built"
    /\ UNCHANGED <<structure, selector, location, hasResult>>
    /\ UNCHANGED <<loadVars, annVars, reprVars, colorVars, transformVars, twiceVars>>
    /\ UNCHANGED laterVars

\* has is asked for an element of a model of the structure or of another model.
Has ==
    /\ elementPc = "built"
    /\ \E m \in ModelIds \cup {3}, e \in ElementIndices :
          /\ location' = [model |-> m, element |-> e]
          /\ hasResult' = has(elementSet, location')
    /\ elementPc' = "asked"
    /\ UNCHANGED <<structure, selector, elementSet>>
    /\ UNCHANGED <<loadVars, annVars, reprVars, colorVars, transformVars, twiceVars>>
    /\ UNCHANGED laterVars

NextElement == FromSelector \/ Has

SpecElement == InitElement /\ [][NextElement]_vars

(* Properties of ElementSet *)

StrictlyIncreasing(array) == \A i \in 2..Len(array) : array[i - 1] < array[i]

RECURSIVE SumOfLengths(_, _)
SumOfLengths(f, ids) ==
    IF ids = {} THEN 0
    ELSE LET id == CHOOSE x \in ids : TRUE
         IN Len(f[id]) + SumOfLengths(f, ids \ {id})

\* structure.elementCount: the elements of all units.
RECURSIVE ElementCount(_, _)
ElementCount(units, k) == IF k = 0 THEN 0 ELSE ElementCount(units, k - 1) + Len(units[k].elements)

\* The elements of model id in the substructure the selector selects.
SelectedElements(id) ==
    IF structure = JUndefined THEN {}
    ELSE {e \in ElementIndices :
            \E k \in 1..Len(structure[2]) :
               /\ structure[2][k].model = id
               /\ \E i \in 1..Len(structure[2][k].elements) : structure[2][k].elements[i] = e
               /\ Keeps(selector, e)}

\* C18 as stated: every per-model sequence of the set that fromSelector
\* returns is strictly increasing, also when several units have the same model,
\* and for the selector 'all' the sequences hold as many indices as the
\* structure has elements.
C18_StrictlyIncreasingPerModel ==
    (elementPc # "input" /\ structure # JUndefined) =>
        /\ \A id \in DOMAIN elementSet : StrictlyIncreasing(elementSet[id])
        /\ selector = SelectorAll =>
              SumOfLengths(elementSet, DOMAIN elementSet) = ElementCount(structure[2], Len(structure[2]))

\* C19: fromSelector returns the empty set for an absent structure, and has
\* is true exactly for the locations whose element is in the selected
\* substructure for the location's model, false for every other element and
\* every model that is not in the set.
C19_HasIsMembership ==
    /\ (elementPc # "input" /\ structure = JUndefined) => elementSet = EmptyMap
    /\ elementPc = "asked" =>
          /\ hasResult <=> (location.element \in SelectedElements(location.model))
          /\ location.model \notin DOMAIN elementSet => ~hasResult

\* has found an element of a model whose units were given out of order.
C19_Witness ==
    /\ elementPc = "asked"
    /\ hasResult
    /\ Len(structure[2]) = 2
    /\ structure[2][1].model = structure[2][2].model
    /\ structure[2][1].elements[1] > structure[2][2].elements[1]
    /\ location.element = structure[2][2].elements[1]

----------------------------------------------------------------------------
(* Interpreting a tree twice *)

\* Largest number of nodes of a tree that is interpreted twice.
MaxTwiceNodes == 3

\* The tree is given to one of loadTree, collectAnnotationReferences and
\* makeNearestReprMap.
InitTwice ==
    /\ \/ /\ \E n \in 1..MaxTwiceNodes :
                \E p \in TreeShapes(n) :
                   \E c \in [1..n -> 1..Len(NodeChoices)] :
                      c[1] = 1 /\ tree = TreeOf(n, p, c)
          /\ loadingActions \in ActionTables
          /\ deletePrevious \in BOOLEAN
          /\ hostState = {}
          /\ hostBefore = hostState
          /\ update = <<>>
          /\ walk = <<>>
          /\ mapping = EmptyMap
          /\ pos = 1
          /\ pc = "start"
          /\ calls = <<>>
          /\ warnings = <<>>
          /\ AnnIdle
          /\ ReprIdle
       \/ /\ \E n \in 1..MaxTwiceNodes :
                \E p \in TreeShapes(n) :
                   \E c \in [1..n -> 1..Len(OrderChoices)] :
                      /\ c[1] = 1
                      /\ \A i \in 2..n : c[i] # 1
                      /\ annTree = AnnTreeOf(n, p, [i \in 1..n |-> OrderChoices[c[i]]])
          /\ annotationMap = EmptyMap
          /\ annSpecs = <<>>
          /\ annPc = "input"
          /\ LoadIdle
          /\ ReprIdle
       \/ /\ \E n \in 1..MaxTwiceNodes :
                \E p \in TreeShapes(n) :
                   \E c \in [1..n -> 1..Len(ReprNodeChoices)] :
                      /\ c[1] \in {1, 2}
                      /\ \A i \in 2..n : c[i] # 1
                      /\ reprTree = ReprTreeOf(n, p, c)
          /\ nearestReprMap = EmptyMap
          /\ reprPc = "input"
          /\ LoadIdle
          /\ AnnIdle
    /\ ColorIdle
    /\ TransformIdle
    /\ ElementIdle
    /\ run = 1
    /\ firstRun = <<>>
    /\ LaterIdle

\* loadTree is called again on the same tree with the same actions: the call
\* makes its own mapping and its own batch, on the state the first call left.
LoadTreeAgain ==
    /\ run = 1
    /\ pc \in {"done", "failed"}
    /\ firstRun' = [calls |-> calls, warnings |-> warnings, pc |-> pc]
    /\ run' = 2
    /\ hostBefore' = hostState
    /\ update' = <<>>
    /\ walk' = <<>>
    /\ mapping' = EmptyMap
    /\ pos' = 1
    /\ pc' = "start"
    /\ calls' = <<>>
    /\ warnings' = <<>>
    /\ UNCHANGED <<tree, loadingActions, deletePrevious, hostState>>
    /\ UNCHANGED <<annVars, helperVars>>
    /\ UNCHANGED laterVars

\* collectAnnotationReferences is called again on the same tree with a
\* context that has no annotationMap yet.
CollectAnnotationReferencesAgain ==
    /\ run = 1
    /\ annPc = "collected"
    /\ firstRun' = [specs |-> annSpecs, annotationMap |-> annotationMap]
    /\ run' = 2
    /\ annotationMap' = EmptyMap
    /\ annSpecs' = <<>>
    /\ annPc' = "input"
    /\ UNCHANGED annTree
    /\ UNCHANGED <<loadVars, helperVars>>
    /\ UNCHANGED laterVars

\* makeNearestReprMap is called again on the same tree: it makes a new map.
MakeNearestReprMapAgain ==
    /\ run = 1
    /\ reprPc = "down"
    /\ firstRun' = [nearestReprMap |-> nearestReprMap]
    /\ run' = 2
    /\ nearestReprMap' = EmptyMap
    /\ reprPc' = "input"
    /\ UNCHANGED reprTree
    /\ UNCHANGED <<loadVars, annVars, colorVars, transformVars, elementVars>>
    /\ UNCHANGED laterVars

NextTwice ==
    \/ LoadTreeStart
    \/ LoadTreeVisit
    \/ LoadTreeCommit
    \/ LoadTreeAgain
    \/ CollectAnnotationReferences
    \/ CollectAnnotationReferencesAgain
    \/ MakeNearestReprMapUp
    \/ MakeNearestReprMapDown
    \/ MakeNearestReprMapAgain

SpecTwice == InitTwice /\ [][NextTwice]_vars

(* Properties of interpreting a tree twice *)

ShorterLength(c1, c2) == IF Len(c1) <= Len(c2) THEN Len(c1) ELSE Len(c2)

\* The loading actions returned or threw the same in the first k calls.
SameOutcomes(c1, c2, k) == \A j \in 1..k : c1[j].result = c2[j].result

\* Two runs invoke the same actions with the same arguments for as long as the
\* actions have returned the same, and make as many calls when all have.
SameCalls(c1, c2) ==
    /\ \A k \in 1..ShorterLength(c1, c2) :
          SameOutcomes(c1, c2, k - 1) =>
              /\ c1[k].ev = c2[k].ev
              /\ c1[k].node = c2[k].node
              /\ c1[k].msParent = c2[k].msParent
    /\ SameOutcomes(c1, c2, ShorterLength(c1, c2)) => Len(c1) = Len(c2)

----------------------------------------------------------------------------
(* Properties of the second pass of makeNearestReprMap *)

\* The map after the first pass of the call.
PassOneMap == PropagateUp(reprTree, EmptyMap)

\* C21 as stated: the second pass only adds mappings; a node that is mapped
\* after the first pass keeps its mapping, and in the returned map every
\* representation maps to itself.
C21_PassTwoOnlyAdds ==
    reprPc = "down" =>
        /\ \A x \in DOMAIN PassOneMap : MapHas(nearestReprMap, x) /\ nearestReprMap[x] = PassOneMap[x]
        /\ \A r \in Representations : MapHas(nearestReprMap, r) /\ nearestReprMap[r] = r

\* Every representation has a structure above it.
RepresentationsInStructures ==
    \A r \in Representations : \E s \in Structures : IsAncestor(reprTree, s, r)

\* x is a structure or lies below one.
InStructureSubtree(x) == \E s \in Structures : x \in ReprSubtree(s)

\* The subtree of structure s has no representation, and s is not below one.
BareStructure(s) ==
    /\ ReprSubtree(s) \cap Representations = {}
    /\ \A r \in Representations : ~IsAncestor(reprTree, r, s)

\* The mapped nodes lie with their representation in one structure subtree.
CommonStructure ==
    \A x \in DOMAIN nearestReprMap :
        \E s \in Structures : x \in ReprSubtree(s) /\ nearestReprMap[x] \in ReprSubtree(s)

\* C22 as stated: when every representation has a structure above it, no node
\* outside all structure subtrees is mapped, a structure subtree that has no
\* representation and is not below one stays entirely unmapped, and every
\* mapped node lies with its representation in one structure subtree.
C22_ConfinedToStructures ==
    (reprPc = "down" /\ RepresentationsInStructures) =>
        /\ \A x \in 1..reprTree.n : ~InStructureSubtree(x) => ~MapHas(nearestReprMap, x)
        /\ \A s \in Structures : BareStructure(s) => \A y \in ReprSubtree(s) : ~MapHas(nearestReprMap, y)
        /\ CommonStructure

\* The nearest structure above representation r.
EnclosingStructure(r) ==
    CHOOSE s \in Structures :
        /\ IsAncestor(reprTree, s, r)
        /\ \A s2 \in Structures : IsAncestor(reprTree, s2, r) => s2 <= s

\* C22, amended: when every representation has a structure above it, the
\* mapped nodes are exactly the nodes of the subtrees of the structures that
\* are the nearest structure above some representation; so no node outside
\* all structure subtrees is mapped, a structure subtree without a
\* representation is mapped when it is nested in such a subtree, next to a
\* representation as well as below one, and every mapped node lies with its
\* representation in one structure subtree.
C22_MappedBelowEnclosingStructures ==
    (reprPc = "down" /\ RepresentationsInStructures) =>
        /\ \A x \in 1..reprTree.n :
              MapHas(nearestReprMap, x) <=>
                  \E r \in Representations : x \in ReprSubtree(EnclosingStructure(r))
        /\ \A x \in 1..reprTree.n : ~InStructureSubtree(x) => ~MapHas(nearestReprMap, x)
        /\ CommonStructure

\* A structure without a representation, not below a representation, is
\* mapped: it is nested in a structure next to a representation.
C22_Witness ==
    /\ reprPc = "down"
    /\ RepresentationsInStructures
    /\ \E s \in Structures :
          /\ BareStructure(s)
          /\ ReprSubtree(s) # {s}
          /\ \A y \in ReprSubtree(s) : MapHas(nearestReprMap, y)

----------------------------------------------------------------------------
(* AppModel.loadMvsFromUrl *)

\* Largest number of calls of loadMvsFromUrl on the AppModel.
MaxCalls == 3

\* The urls the calls are made with, and treeToString(root) of the tree that
\* each url serves.
Urls == {"url1", "url2"}

treeToString(u) == IF u = "url1" THEN "tree1" ELSE "tree2"

\* A call of loadMvsFromUrl: where it is, its argument, the status right
\* after its first statement, and the status at the time it settled.
AppCall(callPc, u, started, settled) ==
    [pc |-> callPc, url |-> u, started |-> started, settled |-> settled]

InitApp ==
    /\ plugin = "undefined"
    /\ status = "ready"
    /\ url = "undefined"
    /\ treeSubject = "undefined"
    /\ appCalls = <<>>
    /\ committedLast = "undefined"
    /\ LoadIdle
    /\ AnnIdle
    /\ HelpersIdle
    /\ TwiceIdle
    /\ PhantomIdle
    /\ JsonIdle

\* initPlugin: createPluginUI has resolved and plugin is assigned.
InitPlugin ==
    /\ plugin = "undefined"
    /\ plugin' = "plugin"
    /\ UNCHANGED <<status, url, treeSubject, appCalls, committedLast>>
    /\ UNCHANGED <<loadVars, annVars, helperVars, twiceVars, phantomVars, jsonVars>>

\* loadMvsFromUrl up to its first await, lines 52-58: without a plugin it
\* returns from the try block, and the status stays as line 52 has set it.
LoadMvsFromUrl ==
    /\ Len(appCalls) < MaxCalls
    /\ \E u \in Urls :
          /\ status' = "loading"
          /\ appCalls' = Append(appCalls,
                 IF plugin = "undefined"
                 THEN AppCall("resolved", u, status', status')
                 ELSE AppCall("fetching", u, status', "none"))
    /\ UNCHANGED <<plugin, url, treeSubject, committedLast>>
    /\ UNCHANGED <<loadVars, annVars, helperVars, twiceVars, phantomVars, jsonVars>>

\* The catch block, lines 67-70.
Rejected(call) == AppCall("rejected", call.url, call.started, "error")

\* await getTreeFromUrl(url) has settled, lines 58-62: with a tree the call
\* starts loadMVSTree, which runs up to the await of its commit; a failed
\* fetch, a malformed response or a failure of the walk ends in the catch block.
GetTreeFromUrlSettled ==
    /\ \E c \in 1..Len(appCalls) :
          /\ appCalls[c].pc = "fetching"
          /\ \E outcome \in {"tree", "fetch failed", "malformed response", "walk failed"} :
                IF outcome = "tree"
                THEN /\ appCalls' = [appCalls EXCEPT ![c].pc = "running"]
                     /\ status' = status
                ELSE /\ appCalls' = [appCalls EXCEPT ![c] = Rejected(appCalls[c])]
                     /\ status' = "error"
    /\ UNCHANGED <<plugin, url, treeSubject, committedLast>>
    /\ UNCHANGED <<loadVars, annVars, helperVars, twiceVars, phantomVars, jsonVars>>

\* await loadMVSTree(...) has settled, lines 62-70: after the commit the
\* subjects are set and the status is 'ready'; a failed commit ends in the
\* catch block.
LoadMVSTreeSettled ==
    /\ \E c \in 1..Len(appCalls) :
          /\ appCalls[c].pc = "running"
          /\ \E outcome \in {"committed", "commit failed"} :
                IF outcome = "committed"
                THEN /\ committedLast' = appCalls[c].url
                     /\ url' = appCalls[c].url
                     /\ treeSubject' = treeToString(appCalls[c].url)
                     /\ status' = "ready"
                     /\ appCalls' = [appCalls EXCEPT ![c] =
                            AppCall("resolved", appCalls[c].url, appCalls[c].started, status')]
                ELSE /\ appCalls' = [appCalls EXCEPT ![c] = Rejected(appCalls[c])]
                     /\ status' = "error"
                     /\ UNCHANGED <<url, treeSubject, committedLast>>
    /\ UNCHANGED plugin
    /\ UNCHANGED <<loadVars, annVars, helperVars, twiceVars, phantomVars, jsonVars>>

NextApp ==
    \/ InitPlugin
    \/ LoadMvsFromUrl
    \/ GetTreeFromUrlSettled
    \/ LoadMVSTreeSettled

SpecApp == InitApp /\ [][NextApp]_vars

(* Properties of AppModel.loadMvsFromUrl *)

\* C23 as stated: every call sets status to 'loading' first, and at the time
\* the call has settled the status is 'ready' if it resolved and 'error' if
\* it rejected, also when plugin is undefined.
C23_StatusSettles ==
    \A c \in 1..Len(appCalls) :
        /\ appCalls[c].started = "loading"
        /\ appCalls[c].pc = "resolved" => appCalls[c].settled = "ready"
        /\ appCalls[c].pc = "rejected" => appCalls[c].settled = "error"

\* The calls whose interpretation run is in flight: loadMVSTree has started
\* and its commit has not completed.
RunsInFlight == {c \in 1..Len(appCalls) : appCalls[c].pc = "running"}

\* C24 as stated: at most one interpretation run is in flight at a time,
\* status is 'ready' only when no run is pending, and the url and tree
\* subjects describe the tree of the run that committed last.
C24_RunsSerialized ==
    /\ Cardinality(RunsInFlight) <= 1
    /\ status = "ready" => RunsInFlight = {}
    /\ url = committedLast
    /\ treeSubject = (IF committedLast = "undefined" THEN "undefined" ELSE treeToString(committedLast))

----------------------------------------------------------------------------
(* isPhantomComponent *)

\* Largest number of nodes of the tree of a component given to
\* isPhantomComponent.
MaxPhantomNodes == 3

ComponentKinds == {"component", "component_from_uri", "component_from_source"}

TooltipKinds == {"tooltip", "tooltip_from_uri", "tooltip_from_source"}

\* The kinds of the nodes: the root of the tree is a component node.
PhantomKindChoices ==
    << "component", "component_from_uri", "component_from_source",
       "tooltip", "tooltip_from_uri", "tooltip_from_source", "representation" >>

\* node.children of node i: undefined, or the list of the children; a node
\* without children has no list (listed[i] false) or an empty one.
NodeChildren(t, i) == IF t.listed[i] THEN <<"array", getChildren(t, i)>> ELSE JUndefined

\* node.children && node.children.every(child => child.kind is a tooltip kind):
\* undefined without a list, else what every returns.
isPhantomComponent(t, i) ==
    IF NodeChildren(t, i) = JUndefined THEN "undefined"
    ELSE IF \A k \in 1..Len(NodeChildren(t, i)[2]) : t.node[NodeChildren(t, i)[2][k]].kind \in TooltipKinds
    THEN "true"
    ELSE "false"

InitPhantom ==
    /\ \E n \in 1..MaxPhantomNodes :
          \E p \in TreeShapes(n) :
             \E c \in [1..n -> 1..Len(PhantomKindChoices)] :
                \E l \in [1..n -> BOOLEAN] :
                   /\ c[1] \in 1..3
                   /\ \A i \in 1..n : (\E j \in 1..n : p[j] = i) => l[i]
                   /\ phantomTree = [n |-> n, parent |-> p, listed |-> l,
                                     node |-> [i \in 1..n |-> [kind |-> PhantomKindChoices[c[i]]]]]
    /\ phantomNode \in {i \in 1..phantomTree.n : phantomTree.node[i].kind \in ComponentKinds}
    /\ phantomResult = <<>>
    /\ phantomPc = "input"
    /\ LoadIdle
    /\ AnnIdle
    /\ HelpersIdle
    /\ TwiceIdle
    /\ AppIdle
    /\ JsonIdle

IsPhantomComponent ==
    /\ phantomPc = "input"
    /\ phantomResult' = isPhantomComponent(phantomTree, phantomNode)
    /\ phantomPc' = "returned"
    /\ UNCHANGED <<phantomTree, phantomNode>>
    /\ UNCHANGED <<loadVars, annVars, helperVars, twiceVars, appVars, jsonVars>>

NextPhantom == IsPhantomComponent

SpecPhantom == InitPhantom /\ [][NextPhantom]_vars

(* Properties of isPhantomComponent *)

\* The direct children of the component.
DirectChildren == {j \in 1..phantomTree.n : phantomTree.parent[j] = phantomNode}

\* C25 as stated: isPhantomComponent returns true exactly when the component
\* has at least one child and every direct child is a tooltip,
\* tooltip_from_uri or tooltip_from_source node; not for a component without
\* children or with an empty list of children.
C25_PhantomIffOnlyTooltips ==
    phantomPc = "returned" =>
        ((phantomResult = "true") <=>
            /\ DirectChildren # {}
            /\ \A j \in DirectChildren : phantomTree.node[j].kind \in TooltipKinds)

----------------------------------------------------------------------------
(* canonicalJsonString and distinct on JSON values *)

\* Largest number of values in the array given to distinct.
MaxValues == 2

K_a == <<97>>   \* "a"
K_b == <<98>>   \* "b"
V_one == <<49>>   \* "1"

\* JSON values (type Json): numbers, strings, booleans, null, arrays of JSON
\* values, objects whose properties are JSON values or undefined.
JsonChoices ==
    << JNumber(1),
       JString(V_one),
       JBoolean(TRUE),
       JString(S_true),
       JNull,
       JString(S_null),
       JObject(<<>>),
       JObject(<< <<K_a, JUndefined>> >>),
       JObject(<< <<K_a, JNull>> >>),
       JObject(<< <<K_a, JNumber(1)>> >>),
       JObject(<< <<K_a, JNumber(1)>>, <<K_b, JUndefined>> >>),
       JObject(<< <<K_a, JNumber(1)>>, <<K_b, JNumber(2)>> >>),
       JObject(<< <<K_b, JNumber(2)>>, <<K_a, JNumber(1)>> >>),
       JObject(<< <<K_a, JNumber(2)>>, <<K_b, JNumber(1)>> >>),
       JArray(<<>>),
       JArray(<< JNull >>),
       JArray(<< JNumber(1), JNumber(2) >>),
       JArray(<< JNumber(2), JNumber(1) >>),
       JArray(<< JObject(<< <<K_a, JNumber(1)>>, <<K_b, JNumber(2)>> >>) >>),
       JArray(<< JObject(<< <<K_b, JNumber(2)>>, <<K_a, JNumber(1)>>, <<S_id, JUndefined>> >>) >>),
       JObject(<< <<K_a, JObject(<< <<K_a, JNumber(1)>>, <<K_b, JNumber(2)>> >>)>> >>),
       JObject(<< <<K_a, JObject(<< <<K_b, JNumber(2)>>, <<K_a, JNumber(1)>> >>)>>, <<K_b, JUndefined>> >>),
       JObject(<< <<K_a, JArray(<< JNumber(1), JNumber(2) >>)>> >>),
       JObject(<< <<K_a, JArray(<< JNumber(2), JNumber(1) >>)>> >>) >>

\* The loop of distinct over the first k values: `seen` and `result`.
RECURSIVE DistinctLoop(_, _)
DistinctLoop(values, k) ==
    IF k = 0 THEN [seen |-> {}, result |-> <<>>]
    ELSE LET before == DistinctLoop(values, k - 1)
             key == canonicalJsonString(values[k])
         IN IF key \notin before.seen
            THEN [seen |-> before.seen \cup {key}, result |-> Append(before.result, values[k])]
            ELSE before

\* distinct(values)
distinct(values) == DistinctLoop(values, Len(values)).result

InitJson ==
    /\ \E n \in 0..MaxValues :
          \E c \in [1..n -> 1..Len(JsonChoices)] :
             jsonValues = [i \in 1..n |-> JsonChoices[c[i]]]
    /\ jsonKeys = <<>>
    /\ distinctResult = <<>>
    /\ jsonPc = "input"
    /\ LoadIdle
    /\ AnnIdle
    /\ HelpersIdle
    /\ TwiceIdle
    /\ AppIdle
    /\ PhantomIdle

\* canonicalJsonString of every value, and distinct of the array.
Distinct ==
    /\ jsonPc = "input"
    /\ jsonKeys' = [i \in 1..Len(jsonValues) |-> canonicalJsonString(jsonValues[i])]
    /\ distinctResult' = distinct(jsonValues)
    /\ jsonPc' = "returned"
    /\ UNCHANGED jsonValues
    /\ UNCHANGED <<loadVars, annVars, helperVars, twiceVars, appVars, phantomVars>>

NextJson == Distinct

SpecJson == InitJson /\ [][NextJson]_vars

(* Properties of canonicalJsonString and distinct *)

\* The keys of the properties whose value is not undefined.
DefinedKeys(props) == {props[k][1] : k \in {i \in 1..Len(props) : props[i][2][1] # "undefined"}}

\* Deep equality up to the order of object keys and the presence of
\* properties whose value is undefined; the order of array elements counts.
RECURSIVE DeepEqual(_, _)
DeepEqual(a, b) ==
    IF a[1] # b[1] THEN FALSE
    ELSE IF a[1] = "object"
    THEN /\ DefinedKeys(a[2]) = DefinedKeys(b[2])
         /\ \A key \in DefinedKeys(a[2]) : DeepEqual(GetProp(a[2], key), GetProp(b[2], key))
    ELSE IF a[1] = "array"
    THEN /\ Len(a[2]) = Len(b[2])
         /\ \A k \in 1..Len(a[2]) : DeepEqual(a[2][k], b[2][k])
    ELSE a[2] = b[2]

\* The positions of the values that are the first of their class.
FirstOfClass == {i \in 1..Len(jsonValues) : \A j \in 1..(i - 1) : ~DeepEqual(jsonValues[j], jsonValues[i])}

\* C26: two JSON values have the same canonicalJsonString exactly when they
\* are deeply equal up to the order of object keys and properties whose value
\* is undefined, at every depth and inside arrays, the order of array elements
\* counting; distinct returns the first value of each class, in input order.
C26_CanonicalIffDeepEqual ==
    jsonPc = "returned" =>
        /\ \A i, j \in 1..Len(jsonValues) :
              (jsonKeys[i] = jsonKeys[j]) <=> DeepEqual(jsonValues[i], jsonValues[j])
        /\ Len(distinctResult) = Cardinality(FirstOfClass)
        /\ \A i \in FirstOfClass :
              distinctResult[Cardinality({j \in FirstOfClass : j <= i})] = jsonValues[i]

\* Two arrays that hold the same object with its keys in another order and
\* with an undefined property have one string, and distinct kept the first.
C26_Witness ==
    /\ jsonPc = "returned"
    /\ Len(jsonValues) = 2
    /\ jsonValues[1][1] = "array"
    /\ jsonValues[2][1] = "array"
    /\ Len(jsonValues[1][2]) = 1
    /\ Len(jsonValues[2][2]) = 1
    /\ jsonValues[1][2][1][1] = "object"
    /\ jsonValues[2][2][1][1] = "object"
    /\ Len(jsonValues[1][2][1][2]) # Len(jsonValues[2][2][1][2])
    /\ jsonKeys[1] = jsonKeys[2]
    /\ distinctResult = <<jsonValues[1]>>

====
